---- MODULE Spec2Model ----
(***************************************************************************)
(* A model of the ffdb storage engine (src/src/ffdb/ffindex.py), of the    *)
(* older engine kept beside it (src/ffdb/ffindex.py) and of the order,     *)
(* select and split commands that drive it.                                *)
(*                                                                         *)
(* Bytes are integers 0..255, byte strings are sequences of them.  A       *)
(* raised Python exception is the field raised of an operation's result;   *)
(* the state carried with it is the state at the moment of the raise.      *)
(***************************************************************************)
EXTENDS Integers, Sequences, FiniteSets, TLC

VARIABLES
    ffindex,    \* an FFIndex of src/src/ffdb/ffindex.py: [index, lookup]
    ffindex0,   \* an FFIndex of src/ffdb/ffindex.py: [index, lookup]
    dbs,        \* the FFDB objects alive, by identity: [data, index]
    stored,     \* per FFDB, the bytes each inserting call stored under a name
    failed,     \* whether some call on the FFDB objects has raised
    ncalls,     \* number of calls made on the FFDB objects
    infiles,    \* the input of a command: [ffdata, ffindex], two files
    mm,         \* memory maps of the input data file: [opened, closed]
    out,        \* the files written, in the order of their writing
    parsed,     \* what FFIndex.from_file made of a written index file
    call        \* the last call made and how it ended

vars == <<ffindex, ffindex0, dbs, stored, failed, ncalls, infiles, mm, out, parsed, call>>

NotParsed == [done |-> FALSE, raised |-> FALSE,
              ix |-> [index |-> <<>>, lookup |-> <<>>]]

\* No file is written by the specifications of the in-memory objects.
NoFiles ==
    /\ infiles = [ffdata |-> <<>>, ffindex |-> <<>>]
    /\ mm = [opened |-> 0, closed |-> 0]
    /\ out = <<>>
    /\ parsed = NotParsed

FilesUnchanged == UNCHANGED <<infiles, mm, out, parsed>>

\* The FFDB objects are not part of the index-only specifications.
NoDbs ==
    /\ dbs = <<>>
    /\ stored = <<>>
    /\ failed = FALSE
    /\ ncalls = 0

DbsUnchanged == UNCHANGED <<dbs, stored, failed, ncalls>>

-----------------------------------------------------------------------------
(* Bounds and the input alphabets of the model.                            *)

\* Longest FFIndex built by the append-only specification.
MaxRows == 2

NUL == 0
TAB == 9
NL == 10
SP == 32

\* Names that an index line can carry unchanged.
PlainNames == {<<97>>, <<98>>, <<99>>}

\* start values a caller may put in the row handed to FFIndex.append.
GivenStarts == {0, 5}

\* size values of the rows handed to FFIndex.append.
GivenSizes == {1, 2}

-----------------------------------------------------------------------------
(* Python helpers.                                                         *)

Min(a, b) == IF a <= b THEN a ELSE b

\* seq[lo:hi] of Python, 0-based, for 0 <= lo.
Slice(s, lo, hi) == SubSeq(s, lo + 1, Min(hi, Len(s)))

Range(s) == {s[i] : i \in 1..Len(s)}

\* A Python dict as a function; d[k] = v on it.
EmptyDict == [k \in {} |-> 0]
DictSet(d, k, v) == [x \in (DOMAIN d) \cup {k} |-> IF x = k THEN v ELSE d[x]]

\* name = value, then the statements after it: In applied to the value.
Bind(value, In(_)) == CHOOSE result \in {In(v) : v \in {value}} : TRUE

-----------------------------------------------------------------------------
(* IndexRow and FFIndex of src/src/ffdb/ffindex.py.                        *)

IndexRow(name, start, size) == [name |-> name, start |-> start, size |-> size]

EmptyIndex == [index |-> <<>>, lookup |-> EmptyDict]

\* FFIndex.__contains__
IndexContains(ix, key) == key \in DOMAIN ix.lookup

\* FFIndex.append with the duplicate-name assertion left out.
IndexAppendNoAssert(ix, value) ==
    LET start == IF Len(ix.index) > 0
                 THEN ix.index[Len(ix.index)].start + ix.index[Len(ix.index)].size
                 ELSE 0
        new_record == IndexRow(value.name, start, value.size)
    IN  [raised |-> FALSE,
         ix |-> [index |-> Append(ix.index, new_record),
                 lookup |-> DictSet(ix.lookup, value.name, new_record)]]

\* FFIndex.append keeping the start of the row it is given.
IndexAppendKeepStart(ix, value) ==
    IF IndexContains(ix, value.name)
    THEN [raised |-> TRUE, ix |-> ix]
    ELSE [raised |-> FALSE,
          ix |-> [index |-> Append(ix.index, value),
                  lookup |-> DictSet(ix.lookup, value.name, value)]]

\* FFIndex.append: the result, and whether the assertion raised.
IndexAppend(ix, value) ==
    IF IndexContains(ix, value.name)
    THEN [raised |-> TRUE, ix |-> ix]
    ELSE LET start == IF Len(ix.index) > 0
                      THEN ix.index[Len(ix.index)].start
                               + ix.index[Len(ix.index)].size
                      ELSE 0
             new_record == IndexRow(value.name, start, value.size)
         IN  [raised |-> FALSE,
              ix |-> [index |-> Append(ix.index, new_record),
                      lookup |-> DictSet(ix.lookup, value.name, new_record)]]

-----------------------------------------------------------------------------
(* FFIndex of the older src/ffdb/ffindex.py: lookup maps a name to a       *)
(* position of the row list.                                               *)

\* FFIndex.append of the older module; it stores len(self.index), taken
\* after the row was added, as the row's position.
Index0Append(ix, value) ==
    IF IndexContains(ix, value.name)
    THEN [raised |-> TRUE, ix |-> ix]
    ELSE LET start == IF Len(ix.index) > 0
                      THEN ix.index[Len(ix.index)].start
                               + ix.index[Len(ix.index)].size
                      ELSE 0
             rows == Append(ix.index, IndexRow(value.name, start, value.size))
         IN  [raised |-> FALSE,
              ix |-> [index |-> rows,
                      lookup |-> DictSet(ix.lookup, value.name, Len(rows))]]

-----------------------------------------------------------------------------
(* FFData: a seekable handle, its content and its position.                *)

EmptyData == [bytes |-> <<>>, pos |-> 0]

Zeros(n) == [i \in 1..n |-> NUL]

\* b[-1:] == b"\0"
EndsWithNul(b) == Len(b) > 0 /\ b[Len(b)] = NUL

\* handle.seek(start); handle.read(size) of FFData.__getitem__: the bytes
\* read stop at the end of the content.
DataRead(h, key) ==
    LET got == Slice(h.bytes, key.start, key.start + key.size)
    IN  [h |-> [bytes |-> h.bytes, pos |-> key.start + Len(got)], bytes |-> got]

\* handle.write(b) at the handle's position.
HandleWrite(h, b) ==
    IF Len(b) = 0 THEN h
    ELSE LET padded == IF h.pos > Len(h.bytes)
                       THEN h.bytes \o Zeros(h.pos - Len(h.bytes))
                       ELSE h.bytes
         IN  [bytes |-> SubSeq(padded, 1, h.pos) \o b
                           \o SubSeq(padded, h.pos + Len(b) + 1, Len(padded)),
              pos |-> h.pos + Len(b)]

\* FFData.append that does not check for the sentinel.
DataAppendNoAssert(h, b) ==
    [raised |-> FALSE, h |-> HandleWrite([bytes |-> h.bytes, pos |-> Len(h.bytes)], b)]

\* FFData.append: seek to the end, assert the sentinel, write.
DataAppend(h, b) ==
    LET atEnd == [bytes |-> h.bytes, pos |-> Len(h.bytes)]
    IN  IF ~EndsWithNul(b)
        THEN [raised |-> TRUE, h |-> atEnd]
        ELSE [raised |-> FALSE, h |-> HandleWrite(atEnd, b)]

-----------------------------------------------------------------------------
(* FFDB.  The operations take the map D of all FFDB objects and the        *)
(* identities of self and of the source, as the same object may be both.   *)

\* FFDB.new
NewDb == [data |-> EmptyData, index |-> EmptyIndex]

WithData(D, id, h) == [D EXCEPT ![id].data = h]
WithIndex(D, id, ix) == [D EXCEPT ![id].index = ix]

\* A key of append_from: a name, a position or an IndexRow.
NameKey(n) == [kind |-> "name", val |-> n]
IntKey(i) == [kind |-> "int", val |-> i]
RowKey(r) == [kind |-> "row", val |-> r]

\* data.index[key] of append_from, or the key itself when it is an
\* IndexRow; found is FALSE for a KeyError or an IndexError.
ResolveKey(ix, key) ==
    IF key.kind = "row" THEN [found |-> TRUE, row |-> key.val]
    ELSE IF key.kind = "name"
    THEN IF key.val \in DOMAIN ix.lookup
         THEN [found |-> TRUE, row |-> ix.lookup[key.val]]
         ELSE [found |-> FALSE, row |-> IndexRow(<<>>, 0, 0)]
    ELSE LET n == Len(ix.index)
             i == IF key.val < 0 THEN key.val + n ELSE key.val
         IN  IF 0 <= i /\ i < n
             THEN [found |-> TRUE, row |-> ix.index[i + 1]]
             ELSE [found |-> FALSE, row |-> IndexRow(<<>>, 0, 0)]

\* FFDB.append_from: resolve the key, read the source, append the row
\* as given, then append the bytes read.
AppendFrom(D, self, src, key) ==
    Bind(ResolveKey(D[src].index, key), LAMBDA k :
    IF ~k.found THEN [raised |-> TRUE, D |-> D, wrote |-> <<>>]
    ELSE
    Bind(DataRead(D[src].data, k.row), LAMBDA rd :
    Bind(WithData(D, src, rd.h), LAMBDA D1 :
    Bind(IndexAppend(D1[self].index, k.row), LAMBDA ia :
    IF ia.raised THEN [raised |-> TRUE, D |-> D1, wrote |-> <<>>]
    ELSE
    Bind(WithIndex(D1, self, ia.ix), LAMBDA D2 :
    Bind(DataAppend(D2[self].data, rd.bytes), LAMBDA da :
        [raised |-> da.raised,
         D |-> WithData(D2, self, da.h),
         wrote |-> IF da.raised THEN <<>> ELSE rd.bytes]))))))

\* The loop of FFDB.extend_from over the resolved rows; done lists the
\* (name, bytes) pairs appended so far.
RECURSIVE ExtendLoop(_, _, _, _, _)
ExtendLoop(D, self, src, rows, done) ==
    IF rows = <<>> THEN [raised |-> FALSE, D |-> D, done |-> done]
    ELSE Bind(AppendFrom(D, self, src, RowKey(Head(rows))), LAMBDA r :
         IF r.raised THEN [raised |-> TRUE, D |-> r.D, done |-> done]
         ELSE ExtendLoop(r.D, self, src, Tail(rows),
                         Append(done, <<Head(rows).name, r.wrote>>)))

\* The keys argument of extend_from: None, or a list of keys.
AllKeys == [all |-> TRUE, list |-> <<>>]
KeyList(l) == [all |-> FALSE, list |-> l]

\* FFDB.extend_from: keys is None (all rows of the source) or a list of
\* keys, all resolved before the first row is copied.
ExtendFrom(D, self, src, keys) ==
    Bind(IF keys.all
         THEN [i \in 1..Len(D[src].index.index) |->
                  [found |-> TRUE, row |-> D[src].index.index[i]]]
         ELSE [i \in 1..Len(keys.list) |->
                  ResolveKey(D[src].index, keys.list[i])], LAMBDA res :
    IF \E i \in 1..Len(res) : ~res[i].found
    THEN [raised |-> TRUE, D |-> D, done |-> <<>>]
    ELSE ExtendLoop(D, self, src, [i \in 1..Len(res) |-> res[i].row], <<>>))

\* data + b"\0" unless data already ends with it
WithSentinel(data) == IF EndsWithNul(data) THEN data ELSE Append(data, NUL)

\* FFDB.append that records len(data) of the data it was handed as the
\* row's size.
DbAppendSizeGiven(D, self, data, key) ==
    LET b == WithSentinel(data)
        da == DataAppend(D[self].data, b)
    IN  IF da.raised THEN [raised |-> TRUE, D |-> WithData(D, self, da.h)]
        ELSE LET D1 == WithData(D, self, da.h)
                 ia == IndexAppend(D1[self].index, IndexRow(key, 0, Len(data)))
             IN  [raised |-> ia.raised, D |-> WithIndex(D1, self, ia.ix)]

\* FFDB.append(data, key): the bytes are written before the row is added.
DbAppend(D, self, data, key) ==
    LET b == WithSentinel(data)
        da == DataAppend(D[self].data, b)
    IN  IF da.raised THEN [raised |-> TRUE, D |-> WithData(D, self, da.h)]
        ELSE LET D1 == WithData(D, self, da.h)
                 ia == IndexAppend(D1[self].index, IndexRow(key, 0, Len(b)))
             IN  [raised |-> ia.raised, D |-> WithIndex(D1, self, ia.ix)]

\* FFIndex.extend that leaves each row the start it came with.
RECURSIVE IndexExtendKeepStart(_, _)
IndexExtendKeepStart(ix, values) ==
    IF values = <<>> THEN [raised |-> FALSE, ix |-> ix]
    ELSE LET r == IndexAppendKeepStart(ix, Head(values))
         IN  IF r.raised THEN r ELSE IndexExtendKeepStart(r.ix, Tail(values))

\* FFIndex.extend that appends the rows last to first.
RECURSIVE IndexExtendReversed(_, _)
IndexExtendReversed(ix, values) ==
    IF values = <<>> THEN [raised |-> FALSE, ix |-> ix]
    ELSE LET r == IndexAppend(ix, values[Len(values)])
         IN  IF r.raised THEN r
             ELSE IndexExtendReversed(r.ix, SubSeq(values, 1, Len(values) - 1))

\* FFIndex.extend: append each row; a raise leaves the rows appended so far.
RECURSIVE IndexExtend(_, _)
IndexExtend(ix, values) ==
    IF values = <<>> THEN [raised |-> FALSE, ix |-> ix]
    ELSE LET r == IndexAppend(ix, Head(values))
         IN  IF r.raised THEN r ELSE IndexExtend(r.ix, Tail(values))

\* FFData.write_to(handle): seek(0) on the source, then copy all of it to
\* the destination handle at the destination's position.
CopyAll(D, self, db) ==
    LET D1 == WithData(D, db, [bytes |-> D[db].data.bytes, pos |-> 0])
        all == D1[db].data.bytes
        D2 == WithData(D1, db, [bytes |-> all, pos |-> Len(all)])
    IN  WithData(D2, self, HandleWrite(D2[self].data, all))

RECURSIVE ConcatLoop(_, _, _)
ConcatLoop(D, self, ids) ==
    IF ids = <<>> THEN [raised |-> FALSE, D |-> D]
    ELSE LET db == Head(ids)
             ie == IndexExtend(D[self].index, D[db].index.index)
             D1 == WithIndex(D, self, ie.ix)
         IN  IF ie.raised THEN [raised |-> TRUE, D |-> D1]
             ELSE ConcatLoop(CopyAll(D1, self, db), self, Tail(ids))

\* FFDB.concat(dbs): seek self's handle to its end, then for each database
\* extend the index with its rows and copy its whole data file.
Concat(D, self, ids) ==
    ConcatLoop(WithData(D, self, [bytes |-> D[self].data.bytes,
                                  pos |-> Len(D[self].data.bytes)]),
               self, ids)

\* self.data[row] without moving the handle: the bytes of a row's range.
RowBytes(db, row) == DataRead(db.data, row).bytes

-----------------------------------------------------------------------------
(* The append-only specification: two indexes, one of each module, start   *)
(* empty and grow by append alone.                                         *)

GivenRows ==
    {IndexRow(n, s, z) : n \in PlainNames, s \in GivenStarts, z \in GivenSizes}

NoCall == [op |-> "none", arg |-> IndexRow(<<>>, 0, 0), raised |-> FALSE]

InitAppend ==
    /\ ffindex = EmptyIndex
    /\ ffindex0 = EmptyIndex
    /\ call = NoCall
    /\ NoDbs
    /\ NoFiles

\* ffindex.append(value)
Append1(value) ==
    /\ Len(ffindex.index) < MaxRows \/ IndexContains(ffindex, value.name)
    /\ LET r == IndexAppend(ffindex, value)
       IN  /\ ffindex' = r.ix
           /\ call' = [op |-> "FFIndex.append", arg |-> value, raised |-> r.raised]
    /\ UNCHANGED ffindex0
    /\ DbsUnchanged
    /\ FilesUnchanged

\* the older module's ffindex.append(value)
Append0(value) ==
    /\ Len(ffindex0.index) < MaxRows \/ IndexContains(ffindex0, value.name)
    /\ LET r == Index0Append(ffindex0, value)
       IN  /\ ffindex0' = r.ix
           /\ call' = [op |-> "FFIndex0.append", arg |-> value, raised |-> r.raised]
    /\ UNCHANGED ffindex
    /\ DbsUnchanged
    /\ FilesUnchanged

NextAppend ==
    \/ \E value \in GivenRows : Append1(value)
    \/ \E value \in GivenRows : Append0(value)

SpecAppend == InitAppend /\ [][NextAppend]_vars

\* Rows i-1 and i of a row list are contiguous, the first starts at 0.
Contiguous(rows) ==
    /\ Len(rows) > 0 => rows[1].start = 0
    /\ \A i \in 2..Len(rows) : rows[i].start = rows[i - 1].start + rows[i - 1].size

\* C2: an FFIndex that starts empty and grows only by FFIndex.append has
\* row[0].start = 0 and row[i].start = row[i-1].start + row[i-1].size for
\* every i > 0, whatever start the supplied rows carry.
C2_OffsetContiguity == Contiguous(ffindex.index)

\* C2's case: two rows were appended, the second supplied with a start that
\* is not the end of the first.
C2_Witness ==
    /\ Len(ffindex.index) >= 2
    /\ call.op = "FFIndex.append"
    /\ ~call.raised
    /\ call.arg.start # ffindex.index[Len(ffindex.index)].start

\* C3: FFIndex.append of a row whose name is already present fails and
\* leaves the row list and the name lookup as they were, in both modules.
C3_DuplicateAppendFails ==
    [][/\ (call'.op = "FFIndex.append" /\ IndexContains(ffindex, call'.arg.name))
            => (call'.raised /\ ffindex' = ffindex)
       /\ (call'.op = "FFIndex0.append" /\ IndexContains(ffindex0, call'.arg.name))
            => (call'.raised /\ ffindex0' = ffindex0)]_vars

\* C3's case: an append of a present name was attempted and raised.
C3_Witness ==
    /\ call.op = "FFIndex.append"
    /\ call.raised
    /\ IndexContains(ffindex, call.arg.name)
    /\ Len(ffindex.index) >= 2

-----------------------------------------------------------------------------
(* The database specification: FFDB objects created empty by FFDB.new and  *)
(* changed by append, append_from, extend_from and concat, each other's    *)
(* sources.                                                                *)

\* Calls made on the FFDB objects of one behaviour.
MaxCalls == 3

\* Longest key list handed to extend_from, longest list handed to concat.
MaxList == 2

DbIds == {1, 2}

DbNames == {<<97>>, <<98>>}

\* data arguments of FFDB.append: empty, ending in the sentinel, and not.
Payloads == {<<>>, <<1, 0>>, <<2>>}

\* IndexRow keys: ranges that are, or are not, rows of a source.
KeyRanges == {<<0, 1>>, <<0, 3>>, <<1, 1>>}

RowKeys == {RowKey(IndexRow(n, g[1], g[2])) : n \in DbNames, g \in KeyRanges}

Keys == {NameKey(n) : n \in DbNames} \cup {IntKey(-1)} \cup RowKeys

\* Keys of the lists handed to extend_from.
ListKeys ==
    {NameKey(<<97>>), IntKey(-1),
     RowKey(IndexRow(<<98>>, 0, 3)), RowKey(IndexRow(<<97>>, 1, 1))}

SeqsUpTo(S, n) == UNION {[1..k -> S] : k \in 0..n}

InitDb ==
    /\ ffindex = EmptyIndex
    /\ ffindex0 = EmptyIndex
    /\ dbs = [id \in DbIds |-> NewDb]
    /\ stored = [id \in DbIds |-> EmptyDict]
    /\ failed = FALSE
    /\ ncalls = 0
    /\ NoFiles
    /\ call = [op |-> "none", self |-> 0, raised |-> FALSE]

Called(op, self, raised) ==
    /\ call' = [op |-> op, self |-> self, raised |-> raised]
    /\ failed' = (failed \/ raised)
    /\ ncalls' = ncalls + 1
    /\ UNCHANGED <<ffindex, ffindex0>>
    /\ FilesUnchanged

\* self.append(data, key)
DoAppend(self, data, key) ==
    /\ ncalls < MaxCalls
    /\ LET r == DbAppend(dbs, self, data, key)
       IN  /\ dbs' = r.D
           /\ stored' = IF r.raised THEN stored
                        ELSE [stored EXCEPT
                                ![self] = DictSet(@, key, WithSentinel(data))]
           /\ Called("append", self, r.raised)

\* self.append_from(src, key)
DoAppendFrom(self, src, key) ==
    /\ ncalls < MaxCalls
    /\ LET r == AppendFrom(dbs, self, src, key)
           k == ResolveKey(dbs[src].index, key)
       IN  /\ dbs' = r.D
           /\ stored' = IF r.raised THEN stored
                        ELSE [stored EXCEPT ![self] = DictSet(@, k.row.name, r.wrote)]
           /\ Called("append_from", self, r.raised)

RECURSIVE DictSetAll(_, _)
DictSetAll(d, pairs) ==
    IF pairs = <<>> THEN d
    ELSE DictSetAll(DictSet(d, Head(pairs)[1], Head(pairs)[2]), Tail(pairs))

\* self.extend_from(src, keys)
DoExtendFrom(self, src, keys) ==
    /\ ncalls < MaxCalls
    /\ LET r == ExtendFrom(dbs, self, src, keys)
       IN  /\ dbs' = r.D
           /\ stored' = [stored EXCEPT ![self] = DictSetAll(@, r.done)]
           /\ Called("extend_from", self, r.raised)

\* The bytes a concat input holds under a name.
ConcatStored(D, ids, name) ==
    LET i == CHOOSE i \in 1..Len(ids) : name \in DOMAIN D[ids[i]].index.lookup
    IN  RowBytes(D[ids[i]], D[ids[i]].index.lookup[name])

\* self.concat(ids)
DoConcat(self, ids) ==
    /\ ncalls < MaxCalls
    /\ LET r == Concat(dbs, self, ids)
           had == DOMAIN dbs[self].index.lookup
           has == DOMAIN r.D[self].index.lookup
       IN  /\ dbs' = r.D
           /\ stored' = [stored EXCEPT ![self] =
                            [n \in (DOMAIN @) \cup (has \ had) |->
                                IF n \in has \ had
                                THEN ConcatStored(dbs, ids, n) ELSE @[n]]]
           /\ Called("concat", self, r.raised)

NextDb ==
    \/ \E self \in DbIds, data \in Payloads, key \in DbNames :
            DoAppend(self, data, key)
    \/ \E self \in DbIds, src \in DbIds, key \in Keys :
            DoAppendFrom(self, src, key)
    \/ \E self \in DbIds, src \in DbIds :
            \E keys \in {AllKeys} \cup {KeyList(l) : l \in SeqsUpTo(ListKeys, MaxList)} :
                DoExtendFrom(self, src, keys)
    \/ \E self \in DbIds, ids \in SeqsUpTo(DbIds, MaxList) \ {<<>>} :
            DoConcat(self, ids)

SpecDb == InitDb /\ [][NextDb]_vars

\* Every row of a database lies within the data store and its range holds
\* the bytes stored under its name.
RowsHoldStored(id) ==
    \A i \in 1..Len(dbs[id].index.index) :
        LET r == dbs[id].index.index[i]
        IN  /\ r.start + r.size <= Len(dbs[id].data.bytes)
            /\ r.name \in DOMAIN stored[id]
            /\ SubSeq(dbs[id].data.bytes, r.start + 1, r.start + r.size)
                   = stored[id][r.name]

\* C1: after any sequence of successful append, append_from, extend_from
\* and concat calls on databases created empty, every index row r has
\* r.start + r.size <= length of the data store and the bytes of its range
\* are the bytes stored under r.name by the call that inserted it.
C1_RowsReferenceStoredBytes ==
    ~failed => \A id \in DbIds : RowsHoldStored(id)

-----------------------------------------------------------------------------
(* sorted(), the FFIndex constructor and FFDB.documents.                   *)

\* The stable sort of Python's sorted(): with before[i][j] telling that
\* the key of s[i] is smaller than the key of s[j], an element goes after
\* those with a smaller key and after the earlier ones with an equal key.
StableSort(s, before) ==
    LET n == Len(s)
        rank(i) == 1 + Cardinality({j \in 1..n :
                          \/ before[j][i]
                          \/ (~before[i][j] /\ j < i)})
    IN  [k \in 1..n |-> s[CHOOSE i \in 1..n : rank(i) = k]]

\* sorted(rows, key=lambda x: x.start)
SortedByStart(rows) ==
    StableSort(rows, [i \in 1..Len(rows) |->
                        [j \in 1..Len(rows) |-> rows[i].start < rows[j].start]])

\* sorted(rows, key=lambda i: i.size, reverse=True): equal sizes keep
\* their order.
SortedBySizeDesc(rows) ==
    StableSort(rows, [i \in 1..Len(rows) |->
                        [j \in 1..Len(rows) |-> rows[i].size > rows[j].size]])

RECURSIVE LookupOf(_)
LookupOf(rows) ==
    IF rows = <<>> THEN EmptyDict
    ELSE DictSet(LookupOf(SubSeq(rows, 1, Len(rows) - 1)),
                 rows[Len(rows)].name, rows[Len(rows)])

UniqueNames(rows) ==
    \A i, j \in 1..Len(rows) : rows[i].name = rows[j].name => i = j

\* FFIndex(index) that keeps the rows in the order given.
IndexNewUnsorted(rows) ==
    [raised |-> ~UniqueNames(rows),
     ix |-> [index |-> rows, lookup |-> LookupOf(rows)]]

\* FFIndex(index): the rows sorted by start; a repeated name raises.
IndexNew(rows) ==
    LET sorted == SortedByStart(rows)
    IN  [raised |-> ~UniqueNames(rows),
         ix |-> [index |-> sorted, lookup |-> LookupOf(sorted)]]

\* bytes.split(sep) for a one-byte separator.
RECURSIVE SplitOn(_, _)
SplitOn(b, sep) ==
    IF \A i \in 1..Len(b) : b[i] # sep THEN <<b>>
    ELSE LET i == CHOOSE i \in 1..Len(b) :
                      b[i] = sep /\ \A j \in 1..(i - 1) : b[j] # sep
         IN  <<SubSeq(b, 1, i - 1)>> \o SplitOn(SubSeq(b, i + 1, Len(b)), sep)

\* sep.join(parts)
RECURSIVE JoinWith(_, _)
JoinWith(parts, sep) ==
    IF parts = <<>> THEN <<>>
    ELSE IF Len(parts) = 1 THEN parts[1]
    ELSE parts[1] \o <<sep>> \o JoinWith(Tail(parts), sep)

NoTrim == -1

\* The (name, document) pairs FFDB.documents(trim) yields over the rows
\* given; trim is NoTrim for None.
RECURSIVE DocumentsOf(_, _, _)
DocumentsOf(db, rows, trim) ==
    IF rows = <<>> THEN <<>>
    ELSE LET document == RowBytes(db, Head(rows))
             trimmed_document == SubSeq(document, 1, Len(document) - 1)
             sdocument == LET parts == SplitOn(trimmed_document, NL)
                          IN  SubSeq(parts, trim + 1, Len(parts))
             rest == DocumentsOf(db, Tail(rows), trim)
         IN  IF trim = NoTrim
             THEN <<<<Head(rows).name, trimmed_document>>>> \o rest
             ELSE IF Len(sdocument) = 0 THEN rest
             ELSE <<<<Head(rows).name, JoinWith(sdocument, NL)>>>> \o rest

\* FFDB.documents(trim)
Documents(db, trim) == DocumentsOf(db, db.index.index, trim)

\* The documents as a set of (name, bytes) pairs.
DocSet(db) == Range(Documents(db, NoTrim))

-----------------------------------------------------------------------------
(* Databases whose index rows tile their data file from byte 0.            *)

\* Most records of a source database.
MaxRecs == 2

SrcNames == {<<97>>, <<98>>, <<99>>}

\* Record contents: sentinel-terminated or not, and empty.
Chunks == {<<0>>, <<1, 0>>, <<1>>, <<>>}

RECURSIVE TileRows(_, _)
TileRows(recs, at) ==
    IF recs = <<>> THEN <<>>
    ELSE <<IndexRow(Head(recs)[1], at, Len(Head(recs)[2]))>>
             \o TileRows(Tail(recs), at + Len(Head(recs)[2]))

RECURSIVE TileBytes(_)
TileBytes(recs) ==
    IF recs = <<>> THEN <<>> ELSE Head(recs)[2] \o TileBytes(Tail(recs))

Reversed(s) == [i \in 1..Len(s) |-> s[Len(s) + 1 - i]]

\* FFDB(FFData(handle), FFIndex(rows)) over the records recs laid end to
\* end, the rows handed to the constructor in file order or reversed.
TiledDb(recs, rev) ==
    LET rows == TileRows(recs, 0)
    IN  [data |-> [bytes |-> TileBytes(recs), pos |-> 0],
         index |-> IndexNew(IF rev THEN Reversed(rows) ELSE rows).ix]

RecLists(names, chunks, n) ==
    {l \in SeqsUpTo(names \X chunks, n) :
        \A i, j \in 1..Len(l) : l[i][1] = l[j][1] => i = j}

TiledDbs == {TiledDb(l, rev) : l \in RecLists(SrcNames, Chunks, MaxRecs),
                               rev \in BOOLEAN}

NamesOf(db) == DOMAIN db.index.lookup

-----------------------------------------------------------------------------
(* The concat specification: an empty database 1 and two databases 2 and   *)
(* 3 with disjoint names; 1.concat of the two, in either order.            *)

InitConcat ==
    /\ ffindex = EmptyIndex
    /\ ffindex0 = EmptyIndex
    /\ \E A \in TiledDbs, B \in TiledDbs :
            /\ NamesOf(A) \cap NamesOf(B) = {}
            /\ dbs = <<NewDb, A, B>>
    /\ stored = <<>>
    /\ failed = FALSE
    /\ ncalls = 0
    /\ NoFiles
    /\ call = [op |-> "none", self |-> 0, raised |-> FALSE]

\* dbs[1].concat(ids)
ConcatInto1(ids) ==
    /\ ncalls = 0
    /\ LET r == Concat(dbs, 1, ids)
       IN  /\ dbs' = r.D
           /\ stored' = stored
           /\ Called("concat", 1, r.raised)

NextConcat == \E ids \in {<<2, 3>>, <<3, 2>>} : ConcatInto1(ids)

SpecConcat == InitConcat /\ [][NextConcat]_vars

\* C4: for databases A and B with disjoint names whose rows tile their data
\* files, concat([A, B]) on an empty database gives a database whose
\* documents(), as a name-to-bytes map, are the union of A's and B's.
C4_ConcatPreservesContent ==
    call.op = "concat" =>
        /\ ~call.raised
        /\ DocSet(dbs[1]) = DocSet(dbs[2]) \cup DocSet(dbs[3])
        /\ Len(Documents(dbs[1], NoTrim))
              = Len(dbs[2].index.index) + Len(dbs[3].index.index)

\* C4's case: both inputs hold records, the second a record that is not
\* the first record of its file.
C4_Witness ==
    /\ call.op = "concat"
    /\ Len(dbs[2].index.index) >= 1
    /\ Len(dbs[3].index.index) >= 2
    /\ \E d \in DocSet(dbs[1]) : Len(d[2]) >= 1

-----------------------------------------------------------------------------
(* The .ffindex text: FFIndex.write_to, IndexRow.parse_ffindex_line and    *)
(* FFIndex.from_file.                                                      *)

\* The bytes that bytes.strip() and bytes.split() take for whitespace.
Whitespace == {9, 10, 11, 12, 13, 32}

Digit0 == 48

\* str(n).encode() for n >= 0
RECURSIVE IntStr(_)
IntStr(n) ==
    IF n < 10 THEN <<Digit0 + n>>
    ELSE IntStr(n \div 10) \o <<Digit0 + (n % 10)>>

IsDigits(b) == Len(b) > 0 /\ \A i \in 1..Len(b) : b[i] \in Digit0..(Digit0 + 9)

\* int(b) for a token of digits
RECURSIVE DigitsValue(_)
DigitsValue(b) ==
    IF b = <<>> THEN 0
    ELSE 10 * DigitsValue(SubSeq(b, 1, Len(b) - 1)) + (b[Len(b)] - Digit0)

\* a < b for byte strings
RECURSIVE BytesLess(_, _)
BytesLess(a, b) ==
    IF b = <<>> THEN FALSE
    ELSE IF a = <<>> THEN TRUE
    ELSE IF a[1] # b[1] THEN a[1] < b[1]
    ELSE BytesLess(Tail(a), Tail(b))

\* sorted(rows, key=lambda x: x.name)
SortedByName(rows) ==
    StableSort(rows, [i \in 1..Len(rows) |->
                        [j \in 1..Len(rows) |-> BytesLess(rows[i].name, rows[j].name)]])

\* name.decode("utf-8") succeeds; of the bytes of the model, those below
\* 128 are one-byte characters and 255 is in no UTF-8 sequence.
Utf8Valid(name) == \A i \in 1..Len(name) : name[i] < 128

\* "{}\t{}\t{}\n".format(name.decode("utf-8"), start, size).encode()
IndexLine(row) ==
    row.name \o <<TAB>> \o IntStr(row.start) \o <<TAB>> \o IntStr(row.size) \o <<NL>>

RECURSIVE WriteLines(_)
WriteLines(rows) ==
    IF rows = <<>> THEN [raised |-> FALSE, bytes |-> <<>>]
    ELSE IF ~Utf8Valid(Head(rows).name) THEN [raised |-> TRUE, bytes |-> <<>>]
    ELSE LET rest == WriteLines(Tail(rows))
         IN  [raised |-> rest.raised, bytes |-> IndexLine(Head(rows)) \o rest.bytes]

\* FFIndex.write_to(handle): the bytes written, the rows sorted by name;
\* a name that does not decode raises after the lines before it.
IndexWriteTo(ix) == WriteLines(SortedByName(ix.index))

\* The lines a binary file handle iterates over, each with its newline.
RECURSIVE FileLines(_)
FileLines(b) ==
    IF b = <<>> THEN <<>>
    ELSE IF \A i \in 1..Len(b) : b[i] # NL THEN <<b>>
    ELSE LET i == CHOOSE i \in 1..Len(b) :
                      b[i] = NL /\ \A j \in 1..(i - 1) : b[j] # NL
         IN  <<SubSeq(b, 1, i)>> \o FileLines(SubSeq(b, i + 1, Len(b)))

\* bytes.split(): the maximal runs of bytes that are not whitespace.
RECURSIVE Tokens(_)
Tokens(b) ==
    IF \A i \in 1..Len(b) : b[i] \in Whitespace THEN <<>>
    ELSE LET i == CHOOSE i \in 1..Len(b) :
                      b[i] \notin Whitespace
                      /\ \A j \in 1..(i - 1) : b[j] \in Whitespace
             ends == {k \in i..Len(b) : b[k] \in Whitespace}
             e == IF ends = {} THEN Len(b) + 1
                  ELSE CHOOSE k \in ends : \A m \in ends : k <= m
         IN  <<SubSeq(b, i, e - 1)>> \o Tokens(SubSeq(b, e, Len(b)))

\* bytes.strip()
Strip(b) ==
    LET keep == {i \in 1..Len(b) : b[i] \notin Whitespace}
    IN  IF keep = {} THEN <<>>
        ELSE SubSeq(b, CHOOSE i \in keep : \A k \in keep : i <= k,
                       CHOOSE i \in keep : \A k \in keep : i >= k)

NoRow == IndexRow(<<>>, 0, 0)

\* IndexRow.parse_ffindex_line with the size - 1 its comment wonders about.
ParseLineSizeLess1(line) ==
    Bind(Tokens(Strip(line)), LAMBDA t :
    IF Len(t) # 3 \/ ~IsDigits(t[2]) \/ ~IsDigits(t[3])
    THEN [raised |-> TRUE, row |-> NoRow]
    ELSE [raised |-> FALSE,
          row |-> IndexRow(t[1], DigitsValue(t[2]), DigitsValue(t[3]) - 1)])

\* IndexRow.parse_ffindex_line: three whitespace-separated fields, the
\* last two integers; anything else raises ValueError.
ParseLine(line) ==
    Bind(Tokens(Strip(line)), LAMBDA t :
    IF Len(t) # 3 \/ ~IsDigits(t[2]) \/ ~IsDigits(t[3])
    THEN [raised |-> TRUE, row |-> NoRow]
    ELSE [raised |-> FALSE,
          row |-> IndexRow(t[1], DigitsValue(t[2]), DigitsValue(t[3]))])

\* The rows parsed from the lines of an index file.
ParseLines(lines) == [i \in 1..Len(lines) |-> ParseLine(lines[i])]

\* FFIndex.from_file(handle)
IndexFromFile(b) ==
    Bind(ParseLines(FileLines(b)), LAMBDA rows :
    IF \E i \in 1..Len(rows) : rows[i].raised
    THEN [raised |-> TRUE, ix |-> EmptyIndex]
    ELSE IndexNew([i \in 1..Len(rows) |-> rows[i].row]))

-----------------------------------------------------------------------------
(* The round-trip specification: an FFIndex constructed from rows in any   *)
(* order is written with write_to and the file read with from_file.        *)

\* Most rows of an index written and read back.
MaxFileRows == 2

\* Names: plain, with a space inside, with a leading space, with a tab
\* inside, and one that is not UTF-8.
FileNames == {<<97>>, <<98>>, <<97, 98>>, <<97, SP, 98>>, <<SP, 97>>,
              <<97, TAB, 98>>, <<255>>}

FileStarts == {0, 12}

FileSizes == {0, 10}

FileRowLists ==
    {l \in SeqsUpTo({IndexRow(n, st, sz) : n \in FileNames, st \in FileStarts,
                                          sz \in FileSizes}, MaxFileRows) :
        UniqueNames(l)}

InitRoundTrip ==
    /\ \E l \in FileRowLists : ffindex = IndexNew(l).ix
    /\ ffindex0 = EmptyIndex
    /\ NoDbs
    /\ NoFiles
    /\ call = [op |-> "none", raised |-> FALSE]

\* ffindex.write_to(handle)
WriteIndex ==
    /\ call.op = "none"
    /\ LET w == IndexWriteTo(ffindex)
       IN  /\ out' = <<w.bytes>>
           /\ call' = [op |-> "write_to", raised |-> w.raised]
    /\ UNCHANGED <<ffindex, ffindex0, parsed, infiles, mm>>
    /\ DbsUnchanged

\* FFIndex.from_file(handle) on the file written
ReadIndex ==
    /\ call.op = "write_to"
    /\ ~call.raised
    /\ LET r == IndexFromFile(out[1])
       IN  /\ parsed' = [done |-> TRUE, raised |-> r.raised, ix |-> r.ix]
           /\ call' = [op |-> "from_file", raised |-> r.raised]
    /\ UNCHANGED <<ffindex, ffindex0, out, infiles, mm>>
    /\ DbsUnchanged

NextRoundTrip == WriteIndex \/ ReadIndex

SpecRoundTrip == InitRoundTrip /\ [][NextRoundTrip]_vars

\* The index is written and read back as it was.
RoundTrips ==
    /\ call.op = "write_to" => ~call.raised
    /\ call.op = "from_file" => (~parsed.raised /\ parsed.ix = ffindex)

NoWhitespace(name) == \A i \in 1..Len(name) : name[i] \notin Whitespace

DistinctStarts(rows) ==
    \A i, j \in 1..Len(rows) : rows[i].start = rows[j].start => i = j

-----------------------------------------------------------------------------
(* FFDB.reorder_from, FFDB.partition and FFDB.quick_partition.  An output  *)
(* file pair is [db, ffindex]: the FFDB whose data handle is the .ffdata   *)
(* file, and the bytes written to the .ffindex file.                       *)

\* The order argument: None, or a list of IndexRows.
NoOrder == [given |-> FALSE, rows |-> <<>>]
OrderOf(rows) == [given |-> TRUE, rows |-> rows]

RowKeysOf(rows) == KeyList([i \in 1..Len(rows) |-> RowKey(rows[i])])

\* FFDB.reorder_from that copies the rows in the source's order when no
\* order is given.
ReorderFromSourceOrder(other, order) ==
    Bind(ExtendFrom(<<other, NewDb>>, 2, 1,
                    RowKeysOf(IF ~order.given
                              THEN other.index.index
                              ELSE order.rows)), LAMBDA r :
    [raised |-> r.raised, new |-> r.D[2], other |-> r.D[1]])

\* FFDB.reorder_from that copies the rows of an order in reverse.
ReorderFromReversed(other, order) ==
    Bind(ExtendFrom(<<other, NewDb>>, 2, 1,
                    RowKeysOf(IF ~order.given
                              THEN SortedBySizeDesc(other.index.index)
                              ELSE Reversed(order.rows))), LAMBDA r :
    [raised |-> r.raised, new |-> r.D[2], other |-> r.D[1]])

\* FFDB.reorder_from(other, data_handle, order) on an empty data handle:
\* a new FFDB extended from other by the rows of the order, or by other's
\* rows in descending size.
ReorderFrom(other, order) ==
    Bind(ExtendFrom(<<other, NewDb>>, 2, 1,
                    RowKeysOf(IF ~order.given
                              THEN SortedBySizeDesc(other.index.index)
                              ELSE order.rows)), LAMBDA r :
    [raised |-> r.raised, new |-> r.D[2], other |-> r.D[1]])

\* ceil(m / n) for n >= 1
CeilDiv(m, n) == (m + n - 1) \div n

\* indices cut into k consecutive slices, the i-th of them.
StrideContiguous(indices, i, k) ==
    LET c == CeilDiv(Len(indices), k)
    IN  SubSeq(indices, i * c + 1, Min((i + 1) * c, Len(indices)))

\* indices[i::k]
Stride(indices, i, k) ==
    [j \in 1..CeilDiv(Len(indices) - i, k) |-> indices[i + 1 + (j - 1) * k]]

\* The loop of FFDB.partition from chunk i on: each chunk is reordered
\* into a new file pair and its index written.
RECURSIVE PartitionLoop(_, _, _, _, _)
PartitionLoop(self, indices, nchunks, i, files) ==
    IF i >= nchunks THEN [raised |-> FALSE, files |-> files, self |-> self]
    ELSE
    Bind(ReorderFrom(self, OrderOf(Stride(indices, i, nchunks))), LAMBDA r :
    Bind(IF r.raised THEN [raised |-> TRUE, bytes |-> <<>>]
         ELSE IndexWriteTo(r.new.index), LAMBDA w :
    Bind(Append(files, [db |-> r.new, ffindex |-> w.bytes]), LAMBDA written :
    IF w.raised
    THEN [raised |-> TRUE, self |-> r.other, files |-> written]
    ELSE PartitionLoop(r.other, indices, nchunks, i + 1, written))))

\* FFDB.partition with floor(m / n) chunks.
PartitionFloor(self, order, n) ==
    LET m == Len(self.index.index)
        nchunks == m \div n
    IN  IF order.given /\ Len(order.rows) # m
        THEN [raised |-> TRUE, files |-> <<>>, self |-> self, ret |-> 0]
        ELSE Bind(PartitionLoop(self,
                                IF ~order.given
                                THEN SortedBySizeDesc(self.index.index)
                                ELSE order.rows,
                                nchunks, 0, <<>>), LAMBDA r :
             [raised |-> r.raised, files |-> r.files, self |-> r.self,
              ret |-> nchunks])

\* FFDB.partition that takes the rows in the index's order when no order
\* is given.
PartitionUnsorted(self, order, n) ==
    LET m == Len(self.index.index)
        nchunks == CeilDiv(m, n)
    IN  IF order.given /\ Len(order.rows) # m
        THEN [raised |-> TRUE, files |-> <<>>, self |-> self, ret |-> 0]
        ELSE Bind(PartitionLoop(self,
                                IF ~order.given
                                THEN self.index.index
                                ELSE order.rows,
                                nchunks, 0, <<>>), LAMBDA r :
             [raised |-> r.raised, files |-> r.files, self |-> r.self,
              ret |-> nchunks])

\* FFDB.partition(name, order, template, n): the file pairs written and
\* the number returned.
Partition(self, order, n) ==
    LET m == Len(self.index.index)
        nchunks == CeilDiv(m, n)
    IN  IF order.given /\ Len(order.rows) # m
        THEN [raised |-> TRUE, files |-> <<>>, self |-> self, ret |-> 0]
        ELSE Bind(PartitionLoop(self,
                                IF ~order.given
                                THEN SortedBySizeDesc(self.index.index)
                                ELSE order.rows,
                                nchunks, 0, <<>>), LAMBDA r :
             [raised |-> r.raised, files |-> r.files, self |-> r.self,
              ret |-> nchunks])

\* bump_starts that leaves the starts as they are.
BumpStartsKeep(ix, by) == ix

\* FFIndex.bump_starts(by): a copy when by is 0, else a new FFIndex of the
\* shifted rows.
BumpStarts(ix, by) ==
    IF by = 0 THEN ix
    ELSE IndexNew([i \in 1..Len(ix.index) |->
                      IndexRow(ix.index[i].name, ix.index[i].start + by,
                               ix.index[i].size)]).ix

\* FFDB._write_quick_partition: the index of the rows given, shifted by
\* -start, and the size = end - start bytes of self's data from start.
WriteQuickPartition(self, start, end, indices) ==
    Bind(BumpStarts(IndexNew(indices).ix, 0 - start), LAMBDA partition_index :
    Bind(DataRead(self.data, IndexRow(<<>>, start, end - start)), LAMBDA got :
    [self |-> [data |-> got.h, index |-> self.index],
     file |-> [db |-> [data |-> [bytes |-> got.bytes, pos |-> Len(got.bytes)],
                       index |-> partition_index],
               ffindex |-> IndexWriteTo(partition_index).bytes]]))

\* The loop of quick_partition flushing whatever is left at the end, a
\* single record too.
RECURSIVE QuickLoopFlushOne(_, _, _, _, _, _, _)
QuickLoopFlushOne(self, n, i, start_pos, pindices, partition, files) ==
    IF i > Len(self.index.index)
    THEN IF Len(pindices) > 0
         THEN Bind(WriteQuickPartition(
                       self, start_pos,
                       pindices[Len(pindices)].start + pindices[Len(pindices)].size,
                       pindices), LAMBDA w :
              [files |-> Append(files, w.file), self |-> w.self,
               ret |-> partition])
         ELSE [files |-> files, self |-> self, ret |-> partition]
    ELSE Bind(self.index.index[i], LAMBDA p :
         IF i % n = 0
         THEN Bind(WriteQuickPartition(self, start_pos, p.start, pindices),
                   LAMBDA w :
              QuickLoopFlushOne(w.self, n, i + 1, p.start, <<p>>, partition + 1,
                                Append(files, w.file)))
         ELSE QuickLoopFlushOne(self, n, i + 1, start_pos, Append(pindices, p),
                                partition, files))

\* The loop of FFDB.quick_partition at the i-th row (from 1).
RECURSIVE QuickLoop(_, _, _, _, _, _, _)
QuickLoop(self, n, i, start_pos, pindices, partition, files) ==
    IF i > Len(self.index.index)
    THEN IF Len(pindices) > 1
         THEN Bind(WriteQuickPartition(
                       self, start_pos,
                       pindices[Len(pindices)].start + pindices[Len(pindices)].size,
                       pindices), LAMBDA w :
              [files |-> Append(files, w.file), self |-> w.self,
               ret |-> partition])
         ELSE [files |-> files, self |-> self, ret |-> partition]
    ELSE Bind(self.index.index[i], LAMBDA p :
         IF i % n = 0
         THEN Bind(WriteQuickPartition(self, start_pos, p.start, pindices),
                   LAMBDA w :
              QuickLoop(w.self, n, i + 1, p.start, <<p>>, partition + 1,
                        Append(files, w.file)))
         ELSE QuickLoop(self, n, i + 1, start_pos, Append(pindices, p),
                        partition, files))

\* FFDB.quick_partition(name, template, n)
QuickPartition(self, n) ==
    Bind(QuickLoop(self, n, 1, 0, <<>>, 1, <<>>), LAMBDA r :
    [raised |-> FALSE, files |-> r.files, self |-> r.self, ret |-> r.ret])

-----------------------------------------------------------------------------
(* The order, split and select commands.  A command reads the input file   *)
(* pair, writes file pairs, and maps the input data file when asked to.    *)

\* FFDB.from_file(data_handle, index_handle)
DbFromFile(files) ==
    Bind(IndexFromFile(files.ffindex), LAMBDA r :
    [raised |-> r.raised,
     db |-> [data |-> [bytes |-> files.ffdata, pos |-> 0], index |-> r.ix]])

\* An optional file argument: None, or the lines of the file.
NoFile == [given |-> FALSE, lines |-> <<>>]
FileOf(lines) == [given |-> TRUE, lines |-> lines]

\* The loop over the lines of an order file: strip the line, skip it when
\* empty, look the name up in the index (KeyError when absent).
RECURSIVE ReadOrder(_, _)
ReadOrder(ix, lines) ==
    IF lines = <<>> THEN [raised |-> FALSE, rows |-> <<>>]
    ELSE Bind(Strip(Head(lines)), LAMBDA sline :
         Bind(ReadOrder(ix, Tail(lines)), LAMBDA rest :
         IF Len(sline) = 0 THEN rest
         ELSE IF sline \notin DOMAIN ix.lookup
         THEN [raised |-> TRUE, rows |-> <<>>]
         ELSE IF rest.raised THEN rest
         ELSE [raised |-> FALSE, rows |-> <<ix.lookup[sline]>> \o rest.rows]))

\* The set of names read from an include or exclude file.
NameSet(file) ==
    {Strip(file.lines[i]) : i \in 1..Len(file.lines)} \ {<<>>}

\* The output file pair as argparse opens it, and after a command.
EmptyPair == [db |-> NewDb, ffindex |-> <<>>]

\* A command whose map is closed on normal completion only.
EndedCloseAtEnd(error, files, mapped) ==
    [error |-> error, files |-> files,
     mm |-> [opened |-> IF mapped THEN 1 ELSE 0,
             closed |-> IF mapped /\ error = "none" THEN 1 ELSE 0]]

Ended(error, files, mapped) ==
    [error |-> error, files |-> files,
     mm |-> [opened |-> IF mapped THEN 1 ELSE 0,
             closed |-> IF mapped THEN 1 ELSE 0]]

\* mmap.mmap raises on an empty file, before mm is bound: the finally
\* clause then raises on the unbound name.
MapFails(files, mmap) == mmap /\ files.ffdata = <<>>

\* The order list a command reads from its order file, None without one.
OrderArg(ix, orderfile) ==
    IF ~orderfile.given THEN [raised |-> FALSE, order |-> NoOrder]
    ELSE Bind(ReadOrder(ix, orderfile.lines), LAMBDA o :
         [raised |-> o.raised, order |-> OrderOf(o.rows)])

\* order(args)
OrderRun(files, mmap, orderfile) ==
    IF MapFails(files, mmap) THEN Ended("UnboundLocalError", <<EmptyPair>>, FALSE)
    ELSE
    Bind(DbFromFile(files), LAMBDA f :
    IF f.raised THEN Ended("ValueError", <<EmptyPair>>, mmap)
    ELSE
    Bind(OrderArg(f.db.index, orderfile), LAMBDA o :
    IF o.raised THEN Ended("KeyError", <<EmptyPair>>, mmap)
    ELSE
    Bind(ReorderFrom(f.db, o.order), LAMBDA r :
    Bind(IF r.raised THEN [raised |-> TRUE, bytes |-> <<>>]
         ELSE IndexWriteTo(r.new.index), LAMBDA w :
    Ended(IF r.raised THEN "AssertionError"
          ELSE IF w.raised THEN "UnicodeDecodeError" ELSE "none",
          <<[db |-> r.new, ffindex |-> w.bytes]>>, mmap)))))

\* split(args)
SplitRun(files, mmap, unbalanced, size, orderfile) ==
    IF MapFails(files, mmap) THEN Ended("UnboundLocalError", <<>>, FALSE)
    ELSE
    Bind(DbFromFile(files), LAMBDA f :
    IF f.raised THEN Ended("ValueError", <<>>, mmap)
    ELSE IF unbalanced /\ ~orderfile.given
    THEN Ended("none", QuickPartition(f.db, size).files, mmap)
    ELSE
    Bind(OrderArg(f.db.index, orderfile), LAMBDA o :
    IF o.raised THEN Ended("KeyError", <<>>, mmap)
    ELSE IF o.order.given /\ Len(o.order.rows) # Len(f.db.index.index)
    THEN Ended("FFOrderError", <<>>, mmap)
    ELSE
    Bind(Partition(f.db, o.order, size), LAMBDA p :
    Ended(IF p.raised THEN "AssertionError" ELSE "none", p.files, mmap))))

\* The rows select keeps: those named in a non-empty include set, less
\* those named in the exclude set, sorted by start.
SelectRows(ix, include, exclude) ==
    LET inc(r) == include = {} \/ r.name \in include
        exc(r) == exclude = {} \/ r.name \notin exclude
    IN  SortedByStart(SelectSeq(SelectSeq(ix.index, inc), exc))

\* The output of select once the rows irs are chosen: extend the output
\* database from them and write its index.
SelectCopy(db, irs, mmap) ==
    Bind(ExtendFrom(<<db, NewDb>>, 2, 1, RowKeysOf(irs)), LAMBDA r :
    Bind(IF r.raised THEN [raised |-> TRUE, bytes |-> <<>>]
         ELSE IndexWriteTo(r.D[2].index), LAMBDA w :
    Ended(IF r.raised THEN "AssertionError"
          ELSE IF w.raised THEN "UnicodeDecodeError" ELSE "none",
          <<[db |-> r.D[2], ffindex |-> w.bytes]>>, mmap)))

\* select(args) without the check that an option is given.
SelectRunNoCheck(files, mmap, include, exclude) ==
    IF MapFails(files, mmap)
    THEN Ended("UnboundLocalError", <<EmptyPair>>, FALSE)
    ELSE
    Bind(DbFromFile(files), LAMBDA f :
    IF f.raised THEN Ended("ValueError", <<EmptyPair>>, mmap)
    ELSE SelectCopy(f.db,
                    SelectRows(f.db.index, NameSet(include), NameSet(exclude)),
                    mmap))

\* select(args) that takes the include set for the exclude set.
SelectRunSwapped(files, mmap, include, exclude) ==
    IF ~include.given /\ ~exclude.given
    THEN Ended("InvalidOptionError", <<EmptyPair>>, FALSE)
    ELSE IF MapFails(files, mmap)
    THEN Ended("UnboundLocalError", <<EmptyPair>>, FALSE)
    ELSE
    Bind(DbFromFile(files), LAMBDA f :
    IF f.raised THEN Ended("ValueError", <<EmptyPair>>, mmap)
    ELSE SelectCopy(f.db,
                    SelectRows(f.db.index, NameSet(exclude), NameSet(include)),
                    mmap))

\* select(args)
SelectRun(files, mmap, include, exclude) ==
    IF ~include.given /\ ~exclude.given
    THEN Ended("InvalidOptionError", <<EmptyPair>>, FALSE)
    ELSE IF MapFails(files, mmap)
    THEN Ended("UnboundLocalError", <<EmptyPair>>, FALSE)
    ELSE
    Bind(DbFromFile(files), LAMBDA f :
    IF f.raised THEN Ended("ValueError", <<EmptyPair>>, mmap)
    ELSE SelectCopy(f.db,
                    SelectRows(f.db.index, NameSet(include), NameSet(exclude)),
                    mmap))

-----------------------------------------------------------------------------
(* The command specification: one command is run on an input file pair.    *)

\* Most records of a command's input.
MaxInRecs == 3

\* Largest --size of split.
MaxSize == 3

\* Most lines of an order file, of an include or exclude file.
MaxOrder == 3
MaxSelect == 2

\* Records of an input: one and two bytes, sentinel-terminated.
GoodChunks == {<<0>>, <<1, 0>>}

InLines == {n \o <<NL>> : n \in SrcNames}

OrderLineLists ==
    SeqsUpTo(InLines, MaxOrder) \cup {<<<<NL>>>> \o l : l \in SeqsUpTo(InLines, 1)}

OrderFiles == {NoFile} \cup {FileOf(l) : l \in OrderLineLists}

SelectLines == {<<97, NL>>, <<98, NL>>}

SelectFiles ==
    {NoFile} \cup {FileOf(l) : l \in SeqsUpTo(SelectLines, MaxSelect)}
             \cup {FileOf(<<<<NL>>>> \o l) : l \in SeqsUpTo(SelectLines, 1)}

\* The file pair of the records recs laid end to end.
InputOf(recs) ==
    [ffdata |-> TileBytes(recs),
     ffindex |-> IndexWriteTo(IndexNew(TileRows(recs, 0)).ix).bytes]

\* Input pairs: well-formed ones, one with a record that lacks the
\* sentinel, one whose index file has a line of two fields.
Inputs ==
    {InputOf(l) : l \in RecLists(SrcNames, GoodChunks, MaxInRecs)}
        \cup {InputOf(<<<<<<97>>, <<1, 0>>>>, <<<<98>>, <<1>>>>>>),
              [ffdata |-> <<0>>, ffindex |-> <<97, TAB, 48, NL>>]}

InitCmd ==
    /\ ffindex = EmptyIndex
    /\ ffindex0 = EmptyIndex
    /\ NoDbs
    /\ infiles \in Inputs
    /\ mm = [opened |-> 0, closed |-> 0]
    /\ out = <<>>
    /\ parsed = NotParsed
    /\ call = [op |-> "none", error |-> "none", args |-> <<>>]

Ran(op, args, r) ==
    /\ call' = [op |-> op, error |-> r.error, args |-> args]
    /\ out' = r.files
    /\ mm' = r.mm
    /\ UNCHANGED <<ffindex, ffindex0, infiles, parsed>>
    /\ DbsUnchanged

\* ffdb order [--mmap] [--order FILE]
OrderCmd(mmap, orderfile) ==
    /\ call.op = "none"
    /\ \E r \in {OrderRun(infiles, mmap, orderfile)} :
         Ran("order", [mmap |-> mmap, order |-> orderfile], r)

\* ffdb split [--mmap] [--unbalanced] --size N [--order FILE]
SplitCmd(mmap, unbalanced, size, orderfile) ==
    /\ call.op = "none"
    /\ \E r \in {SplitRun(infiles, mmap, unbalanced, size, orderfile)} :
         Ran("split", [mmap |-> mmap, unbalanced |-> unbalanced,
                       size |-> size, order |-> orderfile], r)

\* ffdb select [--mmap] [--include FILE] [--exclude FILE]
SelectCmd(mmap, include, exclude) ==
    /\ call.op = "none"
    /\ \E r \in {SelectRun(infiles, mmap, include, exclude)} :
         Ran("select", [mmap |-> mmap, include |-> include,
                        exclude |-> exclude], r)

NextOrder ==
    \E mmap \in BOOLEAN, orderfile \in OrderFiles : OrderCmd(mmap, orderfile)

NextSplit ==
    \E mmap \in BOOLEAN, unbalanced \in BOOLEAN, size \in 1..MaxSize,
       orderfile \in OrderFiles : SplitCmd(mmap, unbalanced, size, orderfile)

NextSelect ==
    \E mmap \in BOOLEAN, include \in SelectFiles, exclude \in SelectFiles :
        SelectCmd(mmap, include, exclude)

SpecOrder == InitCmd /\ [][NextOrder]_vars

SpecSplit == InitCmd /\ [][NextSplit]_vars

SpecSelect == InitCmd /\ [][NextSelect]_vars

NextCmd == NextOrder \/ NextSplit \/ NextSelect

SpecCmd == InitCmd /\ [][NextCmd]_vars

-----------------------------------------------------------------------------------------------------------------------------------------------------
(* Properties of the commands.                                             *)

\* The (name, bytes) records of a database.
Records(db) == {<<db.index.index[i].name, RowBytes(db, db.index.index[i])>> :
                    i \in 1..Len(db.index.index)}

NameSeq(rows) == [i \in 1..Len(rows) |-> rows[i].name]

\* The database a command reads from the input pair: its rows, its
\* records, and whether it is a database at all (the index parses and
\* every row's range ends with the sentinel).
SourceOf(files) ==
    LET f == DbFromFile(files)
        recs == Records(f.db)
    IN  [db |-> f.db,
         rows |-> f.db.index.index,
         names |-> NamesOf(f.db),
         records |-> recs,
         wellformed |-> ~f.raised /\ \A d \in recs : EndsWithNul(d[2])]

\* The names an order file lists, blank lines left out.
Listed(file) ==
    LET stripped == [i \in 1..Len(file.lines) |-> Strip(file.lines[i])]
        nonblank(x) == x # <<>>
    IN  SelectSeq(stripped, nonblank)

\* The order file names every record of the source s exactly once.
IsPermutation(file, s) ==
    /\ Len(Listed(file)) = Len(s.rows)
    /\ Range(Listed(file)) = s.names

\* The command got as far as the database operation on the source s.
Opened(s) == s.wellformed /\ ~MapFails(infiles, call.args.mmap)

\* split called FFDB.partition (and not quick_partition).
PartitionPath ==
    /\ call.op = "split"
    /\ ~(call.args.unbalanced /\ ~call.args.order.given)

NothingWritten == \A i \in 1..Len(out) : out[i].db.data.bytes = <<>>

\* C5: for a database of m records and n >= 1, partition(n), with the
\* default order or an explicit order that is a permutation of the index,
\* writes exactly ceil(m / n) chunks, and every source record is in
\* exactly one of them with the bytes it has in the source.
C5_PartitionCoverage ==
    PartitionPath =>
        LET s == SourceOf(infiles)
        IN  (/\ Opened(s)
             /\ call.args.order.given => IsPermutation(call.args.order, s))
                => /\ call.error = "none"
                   /\ Len(out) = CeilDiv(Len(s.rows), call.args.size)
                   /\ \A d \in s.records :
                        Cardinality({i \in 1..Len(out) :
                                        d[1] \in NamesOf(out[i].db)}) = 1
                   /\ \A i \in 1..Len(out) :
                        Records(out[i].db) \subseteq s.records

\* C5's case: three records split two to a chunk in an explicit order.
C5_Witness ==
    /\ PartitionPath
    /\ call.args.order.given
    /\ call.args.size = 2
    /\ Len(out) = 2
    /\ LET s == SourceOf(infiles)
       IN  /\ Opened(s)
           /\ IsPermutation(call.args.order, s)
           /\ Len(s.rows) = 3

\* C6: reorder_from(other, order) with an order naming every record of
\* other exactly once gives a database with the same records, whose index
\* rows in ascending start follow the order, contiguous from 0.
C6_ReorderIsPermutation ==
    (call.op = "order" /\ call.args.order.given) =>
        LET s == SourceOf(infiles)
            got == SortedByStart(out[1].db.index.index)
        IN  (Opened(s) /\ IsPermutation(call.args.order, s))
                => /\ call.error = "none"
                   /\ Records(out[1].db) = s.records
                   /\ Len(got) = Len(s.rows)
                   /\ NameSeq(got) = Listed(call.args.order)
                   /\ Contiguous(got)

\* C6's case: three records reordered into an order that is not the
\* source's.
C6_Witness ==
    /\ call.op = "order"
    /\ call.args.order.given
    /\ call.error = "none"
    /\ LET s == SourceOf(infiles)
       IN  /\ Opened(s)
           /\ IsPermutation(call.args.order, s)
           /\ Len(s.rows) = 3
           /\ Listed(call.args.order) # NameSeq(s.rows)

\* C7: an explicit order handed to reorder (order command) or to
\* partition (split command) that is not a permutation of the index's
\* names is rejected and no output record is written.  Any error counts
\* as the rejection here.
C7_BadOrderRejected ==
    ((call.op = "order" \/ PartitionPath) /\ call.args.order.given) =>
        LET s == SourceOf(infiles)
        IN  (Opened(s) /\ ~IsPermutation(call.args.order, s))
                => /\ call.error # "none"
                   /\ NothingWritten

\* The rows select is to output: the rows of the source, in ascending
\* start, named in I when I is not empty, and not named in E.
Selected(rows, I, E) ==
    LET wanted(r) == (I = {} \/ r.name \in I) /\ r.name \notin E
    IN  SelectSeq(SortedByStart(rows), wanted)

\* C9: select with include set I and exclude set E outputs exactly the
\* source rows r with (I empty or r.name in I) and r.name not in E, in
\* ascending source-start order, with the bytes of the source and starts
\* contiguous from 0; names that are not in the source change nothing.
C9_SelectFilters ==
    (/\ call.op = "select"
     /\ call.args.include.given \/ call.args.exclude.given)
        => LET s == SourceOf(infiles)
               want == Selected(s.rows, NameSet(call.args.include),
                                NameSet(call.args.exclude))
               got == out[1].db.index.index
           IN  Opened(s)
                => /\ call.error = "none"
                   /\ NameSeq(got) = NameSeq(want)
                   /\ Contiguous(got)
                   /\ \A i \in 1..Len(got) :
                        /\ got[i].size = want[i].size
                        /\ RowBytes(out[1].db, got[i]) = RowBytes(s.db, want[i])

\* C9's case: of three records, the include set keeps two and the
\* exclude set drops one of those, leaving a record that is not the
\* source's first.
C9_Witness ==
    /\ call.op = "select"
    /\ call.error = "none"
    /\ Cardinality(NameSet(call.args.exclude) \cap NameSet(call.args.include)) = 1
    /\ Len(out[1].db.index.index) = 1
    /\ LET s == SourceOf(infiles)
       IN  /\ Opened(s)
           /\ Len(s.rows) = 3
           /\ Cardinality(NameSet(call.args.include) \cap s.names) = 2
           /\ out[1].db.index.index[1].name # s.rows[1].name

\* C10 as stated: select on a database with both the include name set and
\* the exclude name set empty fails with InvalidOptionError and copies no
\* record.
C10_EmptySetsRefused ==
    (/\ call.op = "select"
     /\ NameSet(call.args.include) = {}
     /\ NameSet(call.args.exclude) = {}
     /\ Opened(SourceOf(infiles)))
        => /\ call.error = "InvalidOptionError"
           /\ NothingWritten

\* C10, amended: select with neither an include file nor an exclude file
\* given fails with InvalidOptionError and copies no record.
C10_NoOptionRefused ==
    (/\ call.op = "select"
     /\ ~call.args.include.given
     /\ ~call.args.exclude.given)
        => /\ call.error = "InvalidOptionError"
           /\ NothingWritten

\* C10's case: select was run with neither option on an input that holds
\* records.
C10_Witness ==
    /\ call.op = "select"
    /\ ~call.args.include.given
    /\ ~call.args.exclude.given
    /\ call.error = "InvalidOptionError"
    /\ LET s == SourceOf(infiles)
       IN  s.wellformed /\ Len(s.rows) >= 2

-----------------------------------------------------------------------------
(* Properties of FFDB.append.                                              *)

\* The rows of a database tile its data store: contiguous from 0 up to
\* the length of the data.
Tiles(db) ==
    /\ Contiguous(db.index.index)
    /\ Len(db.data.bytes) =
          IF db.index.index = <<>> THEN 0
          ELSE db.index.index[Len(db.index.index)].start
                  + db.index.index[Len(db.index.index)].size

\* The length FFDB.append is to store for data: one more than len(data)
\* unless data already ends in the sentinel.
StoredLen(data) == IF EndsWithNul(data) THEN Len(data) ELSE Len(data) + 1

\* What a successful append(data, key) is to make of the database old.
AppendedTo(old, new, data, key) ==
    LET end == Len(old.data.bytes)
        L == StoredLen(data)
    IN  /\ new.index.index = Append(old.index.index, IndexRow(key, end, L))
        /\ Len(new.data.bytes) = end + L
        /\ SubSeq(new.data.bytes, 1, end) = old.data.bytes
        /\ new.data.bytes[end + L] = NUL

\* b"hello" and the name b"x"
Hello == <<104, 101, 108, 108, 111>>
NameX == <<120>>

\* The growing specification: databases created empty, changed by append
\* and concat only.
NextGrow ==
    \/ \E self \in DbIds, data \in Payloads, key \in DbNames :
            DoAppend(self, data, key)
    \/ \E self \in DbIds, ids \in SeqsUpTo(DbIds, MaxList) \ {<<>>} :
            DoConcat(self, ids)

SpecGrow == InitDb /\ [][NextGrow]_vars

\* C11: a successful FFDB.append(data, key) on a database whose rows tile
\* its data store appends the one row (key, previous end, L) and grows
\* the data store by exactly L bytes ending in 0x00, L being len(data)
\* when data ends in 0x00 and len(data) + 1 otherwise; on an empty
\* database append(b"hello", b"x") gives row (x, 0, 6) and 6 bytes of data.
C11_AppendRow ==
    [][\A self \in DbIds, data \in Payloads, key \in DbNames :
          (/\ DoAppend(self, data, key)
           /\ ~call'.raised
           /\ Tiles(dbs[self]))
            => /\ AppendedTo(dbs[self], dbs'[self], data, key)
               /\ LET r == DbAppend(<<NewDb>>, 1, Hello, NameX)
                  IN  /\ ~r.raised
                      /\ r.D[1].index.index = <<IndexRow(NameX, 0, 6)>>
                      /\ Len(r.D[1].data.bytes) = 6
                      /\ r.D[1].data.bytes[6] = NUL]_vars

\* C11's case: an append of data without the sentinel succeeded on a
\* database that already held a record, giving a row that starts at the
\* previous end.
C11_Witness ==
    /\ call.op = "append"
    /\ ~call.raised
    /\ Tiles(dbs[call.self])
    /\ Len(dbs[call.self].index.index) = 2
    /\ dbs[call.self].index.index[2].start > 0
    /\ dbs[call.self].data.bytes[Len(dbs[call.self].data.bytes) - 1] = 2

-----------------------------------------------------------------------------
(* The documents specification: a database whose records are text          *)
(* documents; documents(trim) is iterated to its end.                      *)

\* Most lines dropped by documents(trim).
MaxTrim == 2

\* Documents with their sentinel: empty, one line without and with its
\* newline, two lines without and with the last newline, an empty first
\* line.
DocChunks == {<<0>>, <<1, 0>>, <<1, NL, 0>>, <<1, NL, 2, 0>>,
              <<1, NL, 2, NL, 0>>, <<NL, 1, 0>>}

DocDbs == {TiledDb(l, rev) : l \in RecLists(DbNames, DocChunks, MaxRecs),
                             rev \in BOOLEAN}

InitDocs ==
    /\ ffindex = EmptyIndex
    /\ ffindex0 = EmptyIndex
    /\ \E A \in DocDbs : dbs = <<A>>
    /\ stored = <<>>
    /\ failed = FALSE
    /\ ncalls = 0
    /\ NoFiles
    /\ call = [op |-> "none", trim |-> NoTrim, ret |-> <<>>]

\* list(dbs[1].documents(trim))
ListDocuments(trim) ==
    /\ call.op = "none"
    /\ call' = [op |-> "documents", trim |-> trim,
                ret |-> Documents(dbs[1], trim)]
    /\ UNCHANGED <<ffindex, ffindex0>>
    /\ DbsUnchanged
    /\ FilesUnchanged

NextDocs == \E trim \in {NoTrim} \cup (0..MaxTrim) : ListDocuments(trim)

SpecDocs == InitDocs /\ [][NextDocs]_vars

\* The bytes of b after its first k newline-delimited lines; nothing when
\* b has no more than k lines' worth of newlines.
RECURSIVE DropLines(_, _)
DropLines(b, k) ==
    IF k = 0 THEN b
    ELSE IF \A i \in 1..Len(b) : b[i] # NL THEN <<>>
    ELSE LET i == CHOOSE i \in 1..Len(b) :
                      b[i] = NL /\ \A j \in 1..(i - 1) : b[j] # NL
         IN  DropLines(SubSeq(b, i + 1, Len(b)), k - 1)

\* Per row, in the order given, the name and what is left of the record
\* without its last byte and its first k lines; records with nothing left
\* are passed over.
RECURSIVE LeftAfterTrim(_, _, _)
LeftAfterTrim(db, rows, k) ==
    IF rows = <<>> THEN <<>>
    ELSE LET document == RowBytes(db, Head(rows))
             left == DropLines(SubSeq(document, 1, Len(document) - 1), k)
             rest == LeftAfterTrim(db, Tail(rows), k)
         IN  IF left = <<>> THEN rest
             ELSE <<<<Head(rows).name, left>>>> \o rest

\* C12: documents(trim=k) yields, per record in ascending start order, the
\* record's bytes without the final sentinel and without its first k
\* newline-delimited lines, and passes over every record with no bytes
\* left, so no empty document is yielded when trim is set.
C12_TrimSkipsEmpty ==
    (call.op = "documents" /\ call.trim # NoTrim) =>
        /\ call.ret = LeftAfterTrim(dbs[1], SortedByStart(dbs[1].index.index),
                                    call.trim)
        /\ \A i \in 1..Len(call.ret) : call.ret[i][2] # <<>>

\* Where the code and the statement agree: with trim set, the documents
\* yielded that are not empty are the ones the statement describes.
NonEmptyDocumentsAgree ==
    (call.op = "documents" /\ call.trim # NoTrim) =>
        SelectSeq(call.ret, LAMBDA d : d[2] # <<>>)
            = LeftAfterTrim(dbs[1], SortedByStart(dbs[1].index.index),
                            call.trim)

-----------------------------------------------------------------------------
(* Properties of quick_partition, reached through split --unbalanced.      *)

\* split called FFDB.quick_partition.
QuickPath ==
    /\ call.op = "split"
    /\ call.args.unbalanced
    /\ ~call.args.order.given

RECURSIVE Flatten(_)
Flatten(ss) == IF ss = <<>> THEN <<>> ELSE Head(ss) \o Flatten(Tail(ss))

\* The names in the partitions written, partition after partition, each
\* in ascending start.
WrittenNames ==
    Flatten([i \in 1..Len(out) |->
                NameSeq(SortedByStart(out[i].db.index.index))])

IsPrefix(a, b) == Len(a) <= Len(b) /\ SubSeq(b, 1, Len(a)) = a

\* The partitions written are consecutive runs of the source's
\* ascending-start order.
QuickRunsConsecutive ==
    QuickPath =>
        LET s == SourceOf(infiles)
        IN  Opened(s) =>
                /\ call.error = "none"
                /\ IsPrefix(WrittenNames, NameSeq(SortedByStart(s.rows)))

\* C13: quick_partition(n) splits the ascending-start order into
\* consecutive runs, and every run written, except possibly the last,
\* holds exactly n records.
C13_RunsOfN ==
    QuickPath =>
        LET s == SourceOf(infiles)
        IN  Opened(s) =>
                /\ call.error = "none"
                /\ IsPrefix(WrittenNames, NameSeq(SortedByStart(s.rows)))
                /\ \A i \in 1..(Len(out) - 1) :
                      Len(out[i].db.index.index) = call.args.size

\* The number of records quick_partition holds after its last flush: a
\* flush happens at every n-th record and leaves that record behind.
LeftAfterLastFlush(m, n) == IF m < n THEN m ELSE m - n * (m \div n) + 1

\* C14: quick_partition(n) places every record in exactly one written
\* partition, with the bytes it has in the source, except that when the
\* records left after the last flush number exactly one, that record (the
\* last in ascending start) is written to no partition.
C14_QuickCoverage ==
    QuickPath =>
        LET s == SourceOf(infiles)
            rows == SortedByStart(s.rows)
            m == Len(rows)
            dropped == IF LeftAfterLastFlush(m, call.args.size) = 1
                       THEN {rows[m].name} ELSE {}
        IN  Opened(s) =>
                /\ call.error = "none"
                /\ \A d \in s.records :
                      Cardinality({i \in 1..Len(out) :
                                      d[1] \in NamesOf(out[i].db)})
                          = IF d[1] \in dropped THEN 0 ELSE 1
                /\ \A i \in 1..Len(out) :
                      Records(out[i].db) \subseteq s.records

\* C14's case: three records cut three to a run; the flush at the third
\* record writes the first two and the third, left alone, is written
\* nowhere.
C14_Witness ==
    /\ QuickPath
    /\ call.args.size = 3
    /\ Len(out) = 1
    /\ Len(out[1].db.index.index) = 2
    /\ LET s == SourceOf(infiles)
       IN  /\ Opened(s)
           /\ Len(s.rows) = 3
           /\ \E d \in s.records : d[1] \notin NamesOf(out[1].db)

-----------------------------------------------------------------------------
(* The join_concat command of scripts/join_concat.py.                      *)

\* b.rstrip(chars)
RECURSIVE RStrip(_, _)
RStrip(b, chars) ==
    IF b # <<>> /\ b[Len(b)] \in chars
    THEN RStrip(SubSeq(b, 1, Len(b) - 1), chars)
    ELSE b

\* The (index_row, indb) pairs in the order the two nested loops over
\* indbs and their rows meet them; the database is given by its position.
RECURSIVE RowsOfAll(_, _)
RowsOfAll(indbs, j) ==
    IF j > Len(indbs) THEN <<>>
    ELSE [i \in 1..Len(indbs[j].index.index) |->
              [row |-> indbs[j].index.index[i], src |-> j]]
             \o RowsOfAll(indbs, j + 1)

\* The keys of index_names, in the order of their insertion.
RECURSIVE FirstSeen(_, _)
FirstSeen(pairs, seen) ==
    IF pairs = <<>> THEN <<>>
    ELSE IF Head(pairs).row.name \in seen THEN FirstSeen(Tail(pairs), seen)
    ELSE <<Head(pairs).row.name>>
             \o FirstSeen(Tail(pairs), seen \cup {Head(pairs).row.name})

\* index_names[index_name]
UnderName(pairs, index_name) ==
    SelectSeq(pairs, LAMBDA p : p.row.name = index_name)

\* The document built with only the sentinel stripped from each part.
NewDocumentKeepNewline(indbs, entries) ==
    JoinWith([i \in 1..Len(entries) |->
                 RStrip(RowBytes(indbs[entries[i].src], entries[i].row),
                        {NUL})], NL) \o <<NL, NUL>>

\* The document join_concat builds for the entries under one name.
NewDocument(indbs, entries) ==
    JoinWith([i \in 1..Len(entries) |->
                 RStrip(RowBytes(indbs[entries[i].src], entries[i].row),
                        {NUL, NL})], NL) \o <<NL, NUL>>

\* The loop of join_concat over the keys of index_names.
RECURSIVE JoinLoop(_, _, _, _)
JoinLoop(outdb, indbs, pairs, keys) ==
    IF keys = <<>> THEN [raised |-> FALSE, outdb |-> outdb]
    ELSE
    Bind(NewDocument(indbs, UnderName(pairs, Head(keys))), LAMBDA new_document :
    Bind(IndexAppend(outdb.index,
                     IndexRow(Head(keys), 0, Len(new_document))), LAMBDA ia :
    IF ia.raised
    THEN [raised |-> TRUE, outdb |-> [data |-> outdb.data, index |-> ia.ix]]
    ELSE
    Bind(DataAppend(outdb.data, new_document), LAMBDA da :
    IF da.raised
    THEN [raised |-> TRUE, outdb |-> [data |-> da.h, index |-> ia.ix]]
    ELSE JoinLoop([data |-> da.h, index |-> ia.ix], indbs, pairs, Tail(keys)))))

\* The input pairs read by FFDB.from_file, one after the other.
FromFiles(inputs) == [j \in 1..Len(inputs) |-> DbFromFile(inputs[j])]

\* join_concat(args): inputs are the (ffdata, ffindex) pairs zipped.
JoinConcatRun(inputs) ==
    Bind(FromFiles(inputs), LAMBDA fs :
    IF \E j \in 1..Len(fs) : fs[j].raised
    THEN Ended("ValueError", <<EmptyPair>>, FALSE)
    ELSE
    Bind([j \in 1..Len(fs) |-> fs[j].db], LAMBDA indbs :
    Bind(RowsOfAll(indbs, 1), LAMBDA pairs :
    Bind(JoinLoop(NewDb, indbs, pairs, FirstSeen(pairs, {})), LAMBDA r :
    Bind(IF r.raised THEN [raised |-> TRUE, bytes |-> <<>>]
         ELSE IndexWriteTo(r.outdb.index), LAMBDA w :
    Ended(IF r.raised THEN "AssertionError"
          ELSE IF w.raised THEN "UnicodeDecodeError" ELSE "none",
          <<[db |-> r.outdb, ffindex |-> w.bytes]>>, FALSE))))))

\* Most input databases of join_concat.
MaxJoin == 2

\* Records of the inputs: empty, ending in two newlines and the sentinel,
\* and lacking both.
JoinChunks == {<<0>>, <<1, NL, NL, 0>>, <<2>>}

JoinInputs ==
    {InputOf(l) : l \in RecLists(DbNames, JoinChunks, MaxRecs)}
        \cup {[ffdata |-> <<0>>, ffindex |-> <<97, TAB, 48, NL>>]}

InitJoin ==
    /\ ffindex = EmptyIndex
    /\ ffindex0 = EmptyIndex
    /\ NoDbs
    /\ infiles \in {l \in SeqsUpTo(JoinInputs, MaxJoin) : l # <<>>}
    /\ mm = [opened |-> 0, closed |-> 0]
    /\ out = <<>>
    /\ parsed = NotParsed
    /\ call = [op |-> "none", error |-> "none", args |-> <<>>]

\* ffdb join_concat -d DATA -i INDEX FFDATA... FFINDEX...
JoinConcatCmd ==
    /\ call.op = "none"
    /\ \E r \in {JoinConcatRun(infiles)} : Ran("join_concat", <<>>, r)

NextJoin == JoinConcatCmd

SpecJoin == InitJoin /\ [][NextJoin]_vars

\* The documents stored under name in the input databases, in input
\* order, each without its trailing sentinel and newline bytes.
RECURSIVE StrippedUnder(_, _, _)
StrippedUnder(srcs, name, j) ==
    IF j > Len(srcs) THEN <<>>
    ELSE (IF \E d \in srcs[j].records : d[1] = name
          THEN <<RStrip((CHOOSE d \in srcs[j].records : d[1] = name)[2],
                        {NUL, NL})>>
          ELSE <<>>) \o StrippedUnder(srcs, name, j + 1)

\* C15: join_concat over the databases D1..Dk writes one output record
\* per distinct name; the record is the documents stored under that name,
\* each with its trailing sentinel and newline bytes removed, joined with
\* single newlines in input order, followed by a newline and one 0x00, and
\* its index row's size is the merged byte length.
C15_JoinMerges ==
    call.op = "join_concat" =>
        LET srcs == [j \in 1..Len(infiles) |-> SourceOf(infiles[j])]
            names == UNION {srcs[j].names : j \in 1..Len(srcs)}
            merged(name) == JoinWith(StrippedUnder(srcs, name, 1), NL)
                                \o <<NL, NUL>>
            outdb == out[1].db
            written == IndexFromFile(out[1].ffindex)
        IN  (\A j \in 1..Len(srcs) : ~DbFromFile(infiles[j]).raised) =>
                /\ call.error = "none"
                /\ Len(outdb.index.index) = Cardinality(names)
                /\ NamesOf(outdb) = names
                /\ \A i \in 1..Len(outdb.index.index) :
                      LET row == outdb.index.index[i]
                      IN  /\ RowBytes(outdb, row) = merged(row.name)
                          /\ row.size = Len(merged(row.name))
                /\ Tiles(outdb)
                /\ ~written.raised
                /\ written.ix = outdb.index

\* C15's case: two databases both hold a record under one name, the
\* first ending in newlines, and the second holds another name too.
C15_Witness ==
    /\ call.op = "join_concat"
    /\ call.error = "none"
    /\ Len(infiles) = 2
    /\ Len(out[1].db.index.index) = 2
    /\ \E i \in 1..2 :
          /\ RowBytes(out[1].db, out[1].db.index.index[i])
                = <<1, NL, 2, NL, NUL>>
          /\ out[1].db.index.index[i].size = 5

-----------------------------------------------------------------------------
(* The data specification: one FFData over an empty handle, appended to    *)
(* and read from.                                                          *)

\* What FFData.append is handed: nothing, bytes that end with the
\* sentinel, bytes that do not.
DataPayloads == {<<>>, <<0>>, <<1, 0>>, <<1>>, <<0, 1>>}

InitData ==
    /\ ffindex = EmptyIndex
    /\ ffindex0 = EmptyIndex
    /\ dbs = <<NewDb>>
    /\ stored = <<>>
    /\ failed = FALSE
    /\ ncalls = 0
    /\ NoFiles
    /\ call = [op |-> "none", arg |-> <<>>, raised |-> FALSE]

\* dbs[1].data.append(b)
DataAppendCall(b) ==
    /\ ncalls < MaxCalls
    /\ LET r == DataAppend(dbs[1].data, b)
       IN  /\ dbs' = WithData(dbs, 1, r.h)
           /\ call' = [op |-> "FFData.append", arg |-> b, raised |-> r.raised]
           /\ failed' = (failed \/ r.raised)
    /\ ncalls' = ncalls + 1
    /\ UNCHANGED <<ffindex, ffindex0, stored>>
    /\ FilesUnchanged

\* dbs[1].data[IndexRow(name, start, size)]
DataGetItem(start, size) ==
    /\ ncalls < MaxCalls
    /\ LET r == DataRead(dbs[1].data, IndexRow(<<>>, start, size))
       IN  /\ dbs' = WithData(dbs, 1, r.h)
           /\ call' = [op |-> "FFData.getitem", arg |-> r.bytes, raised |-> FALSE]
    /\ ncalls' = ncalls + 1
    /\ UNCHANGED <<ffindex, ffindex0, stored, failed>>
    /\ FilesUnchanged

NextData ==
    \/ \E b \in DataPayloads : DataAppendCall(b)
    \/ \E start \in 0..MaxCalls, size \in 1..2 : DataGetItem(start, size)

SpecData == InitData /\ [][NextData]_vars

\* C16: FFData.append(b) fails whenever b does not end with 0x00, the
\* empty b included, and writes nothing: the content of the data store,
\* and so its length, is unchanged.
C16_AppendNeedsSentinel ==
    [][\A b \in DataPayloads :
          (DataAppendCall(b) /\ ~EndsWithNul(b))
            => /\ call'.raised
               /\ dbs'[1].data.bytes = dbs[1].data.bytes]_vars

\* C16's case: an append of the empty bytes has failed on a store that
\* holds bytes, after a read had moved the handle from the end.
C16_Witness ==
    /\ call.op = "FFData.append"
    /\ call.arg = <<>>
    /\ call.raised
    /\ dbs[1].data.bytes = <<1, 0>>
    /\ ncalls = 3

-----------------------------------------------------------------------------
(* The lookup specification: both FFIndex modules, grown by append and     *)
(* looked up by name.                                                      *)

\* FFIndex.__getitem__(key) with a bytes key, src/src/ffdb/ffindex.py: the
\* lookup dict holds the rows.
IndexGetItem(ix, key) ==
    IF key \notin DOMAIN ix.lookup
    THEN [error |-> "KeyError", row |-> NoRow]
    ELSE [error |-> "none", row |-> ix.lookup[key]]

\* FFIndex.__getitem__(key) with a bytes key, src/ffdb/ffindex.py: the
\* lookup dict holds positions in the row list, counted from 0.
Index0GetItem(ix, key) ==
    IF key \notin DOMAIN ix.lookup
    THEN [error |-> "KeyError", row |-> NoRow]
    ELSE IF ix.lookup[key] >= Len(ix.index)
    THEN [error |-> "IndexError", row |-> NoRow]
    ELSE [error |-> "none", row |-> ix.index[ix.lookup[key] + 1]]

\* A name that no append is handed.
NeverAppended == <<122>>

LookupNames == PlainNames \cup {NeverAppended}

Looked(op, key, r) ==
    /\ call' = [op |-> op, arg |-> IndexRow(key, 0, 0),
                raised |-> r.error # "none", error |-> r.error, ret |-> r.row]
    /\ UNCHANGED <<ffindex, ffindex0>>
    /\ DbsUnchanged
    /\ FilesUnchanged

\* ffindex[key]
GetItem1(key) == Looked("FFIndex.getitem", key, IndexGetItem(ffindex, key))

\* ffindex0[key]
GetItem0(key) == Looked("FFIndex0.getitem", key, Index0GetItem(ffindex0, key))

NextLookup ==
    \/ \E value \in GivenRows : Append1(value)
    \/ \E value \in GivenRows : Append0(value)
    \/ \E key \in LookupNames : GetItem1(key)
    \/ \E key \in LookupNames : GetItem0(key)

SpecLookup == InitAppend /\ [][NextLookup]_vars

\* What a lookup of key in an index of the rows given is to do: return
\* the row of that name, or raise KeyError when no row has it.
LooksUp(rows, key, c) ==
    IF \E i \in 1..Len(rows) : rows[i].name = key
    THEN /\ c.error = "none"
         /\ c.ret \in Range(rows)
         /\ c.ret.name = key
    ELSE c.error = "KeyError"

\* The index of src/src/ffdb/ffindex.py looks every name up as stated.
NewIndexLooksUp ==
    [][\A key \in LookupNames :
          GetItem1(key) => LooksUp(ffindex.index, key, call')]_vars

\* C17: in both FFIndex implementations, after any number of successful
\* appends, the lookup of each name present returns the row stored under
\* that name (of a name just appended, the row just appended), and the
\* lookup of a name never inserted raises a key error.
C17_LookupReturnsRow ==
    [][\A key \in LookupNames :
          /\ GetItem1(key) => LooksUp(ffindex.index, key, call')
          /\ GetItem0(key) => LooksUp(ffindex0.index, key, call')]_vars

-----------------------------------------------------------------------------
(* Tiling of the data store by the rows of a database.                     *)

\* The range of every row ends, within the data store, on the sentinel.
RowsEndWithNul(db) ==
    \A i \in 1..Len(db.index.index) :
        LET r == db.index.index[i]
        IN  /\ r.size >= 1
            /\ r.start + r.size <= Len(db.data.bytes)
            /\ db.data.bytes[r.start + r.size] = NUL

\* C18: for databases created empty and changed only by successful append,
\* append_from, extend_from and concat calls, the rows tile the data store
\* (the first row starts at 0, each row starts where the one before it
\* ends, the last row ends at the length of the data store) and the last
\* byte of every row's range is 0x00.
C18_RowsTileData ==
    ~failed => \A id \in DbIds : Tiles(dbs[id]) /\ RowsEndWithNul(dbs[id])

-----------------------------------------------------------------------------
(* The concat-onto specification: three tiled databases with pairwise      *)
(* disjoint names; the first concats one or both of the others.            *)

OntoNames == SrcNames \cup {<<100>>}

OntoDbs == {TiledDb(l, FALSE) : l \in RecLists(OntoNames, GoodChunks, MaxRecs)}

InitOnto ==
    /\ ffindex = EmptyIndex
    /\ ffindex0 = EmptyIndex
    /\ \E S \in OntoDbs, A \in OntoDbs, B \in OntoDbs :
            /\ NamesOf(S) \cap NamesOf(A) = {}
            /\ NamesOf(S) \cap NamesOf(B) = {}
            /\ NamesOf(A) \cap NamesOf(B) = {}
            /\ dbs = <<S, A, B>>
    /\ stored = <<>>
    /\ failed = FALSE
    /\ ncalls = 0
    /\ NoFiles
    /\ call = [op |-> "none", self |-> 0, raised |-> FALSE]

NextOnto == \E ids \in {<<2>>, <<2, 3>>, <<3, 2>>} : ConcatInto1(ids)

SpecOnto == InitOnto /\ [][NextOnto]_vars

\* The rows new put one after the other behind rows: each keeps its name
\* and size and starts at the end of the row before it (at 0 when first).
RECURSIVE PutBehind(_, _)
PutBehind(rows, new) ==
    IF new = <<>> THEN rows
    ELSE PutBehind(
             Append(rows,
                    IndexRow(Head(new).name,
                             IF rows = <<>> THEN 0
                             ELSE rows[Len(rows)].start + rows[Len(rows)].size,
                             Head(new).size)),
             Tail(new))

\* C19: after self.concat([D1..Dk]) succeeds, self's index in ascending
\* start order is self's previous rows followed by D1's rows in D1's
\* ascending-start order, then D2's, and so on, each appended row keeping
\* its name and size and starting at the end of the row before it.
C19_ConcatRowOrder ==
    [][\A ids \in {<<2>>, <<2, 3>>, <<3, 2>>} :
          (ConcatInto1(ids) /\ ~call'.raised) =>
              SortedByStart(dbs'[1].index.index)
                  = PutBehind(SortedByStart(dbs[1].index.index),
                              Flatten([j \in 1..Len(ids) |->
                                  SortedByStart(dbs[ids[j]].index.index)]))]_vars

\* C19's case: a database of one record has taken in two others, the
\* first of which holds two records.
C19_Witness ==
    /\ call.op = "concat"
    /\ ~call.raised
    /\ Len(dbs[2].index.index) = 2
    /\ Len(dbs[3].index.index) = 1
    /\ Len(dbs[1].index.index) = 4
    /\ dbs[1].index.index[4].name = dbs[3].index.index[1].name
    /\ dbs[1].index.index[2].start > 0

-----------------------------------------------------------------------------
(* reorder_from without an order, reached through order without --order.   *)

\* The start of the row named name in the rows given.
StartOf(rows, name) ==
    (CHOOSE r \in Range(rows) : r.name = name).start

\* C20: reorder_from with no order copies the records in non-increasing
\* size order, records of equal size in ascending order of their source
\* starts, so the output index in ascending start order has non-increasing
\* sizes; every record of the source is copied.
C20_DefaultOrderBySize ==
    (call.op = "order" /\ ~call.args.order.given) =>
        LET s == SourceOf(infiles)
            got == SortedByStart(out[1].db.index.index)
        IN  Opened(s) =>
                /\ call.error = "none"
                /\ Records(out[1].db) = s.records
                /\ Len(got) = Len(s.rows)
                /\ Contiguous(got)
                /\ \A i, j \in 1..Len(got) :
                      i < j =>
                          \/ got[i].size > got[j].size
                          \/ /\ got[i].size = got[j].size
                             /\ StartOf(s.rows, got[i].name)
                                   < StartOf(s.rows, got[j].name)

\* C20's case: three records, the first smaller than the second and as
\* large as the third, copied without an order.
C20_Witness ==
    /\ call.op = "order"
    /\ ~call.args.order.given
    /\ call.error = "none"
    /\ LET s == SourceOf(infiles)
           rows == SortedByStart(s.rows)
       IN  /\ Opened(s)
           /\ Len(rows) = 3
           /\ rows[1].size < rows[2].size
           /\ rows[1].size = rows[3].size
           /\ NameSeq(SortedByStart(out[1].db.index.index))
                 = <<rows[2].name, rows[1].name, rows[3].name>>

-----------------------------------------------------------------------------
(* FFDB.collect_into, over the databases of the documents specification.   *)

\* b.endswith(b"\n")
EndsWithNL(b) == Len(b) > 0 /\ b[Len(b)] = NL

\* collect_into that writes a newline after every document.
RECURSIVE CollectLoopAlways(_, _)
CollectLoopAlways(outfile, docs) ==
    IF docs = <<>> THEN outfile
    ELSE CollectLoopAlways(
             HandleWrite(HandleWrite(outfile, Head(docs)[2]), <<NL>>),
             Tail(docs))

\* The loop of collect_into over the documents yielded: write the
\* document, then a newline when the document does not end with one.
RECURSIVE CollectLoop(_, _)
CollectLoop(outfile, docs) ==
    IF docs = <<>> THEN outfile
    ELSE Bind(HandleWrite(outfile, Head(docs)[2]), LAMBDA written :
         CollectLoop(IF ~EndsWithNL(Head(docs)[2])
                     THEN HandleWrite(written, <<NL>>)
                     ELSE written,
                     Tail(docs)))

\* FFDB.collect_into(outfile, trim) on an empty outfile
CollectInto(db, trim) == CollectLoop(EmptyData, Documents(db, trim))

\* dbs[1].collect_into(outfile, trim)
DoCollectInto(trim) ==
    /\ call.op = "none"
    /\ call' = [op |-> "collect_into", trim |-> trim, ret |-> <<>>]
    /\ out' = <<CollectInto(dbs[1], trim).bytes>>
    /\ UNCHANGED <<ffindex, ffindex0, infiles, mm, parsed>>
    /\ DbsUnchanged

NextCollect == \E trim \in {NoTrim} \cup (0..MaxTrim) : DoCollectInto(trim)

SpecCollect == InitDocs /\ [][NextCollect]_vars

\* A document as it is to appear in the outfile: with one newline added
\* when it does not end with one.
WithNewline(document) ==
    IF EndsWithNL(document) THEN document ELSE document \o <<NL>>

\* C21: collect_into writes the documents of documents(trim) in order,
\* each followed by exactly one added newline when it does not already
\* end with a newline and by nothing otherwise, so the bytes written for
\* every document end with a newline.
C21_CollectAddsNewline ==
    call.op = "collect_into" =>
        LET docs == Documents(dbs[1], call.trim)
            pieces == [i \in 1..Len(docs) |-> WithNewline(docs[i][2])]
        IN  /\ out[1] = Flatten(pieces)
            /\ \A i \in 1..Len(pieces) : EndsWithNL(pieces[i])
            /\ docs # <<>> => EndsWithNL(out[1])

\* C21's case: two documents were collected, the first ending with a
\* newline and the second not.
C21_Witness ==
    /\ call.op = "collect_into"
    /\ call.trim = NoTrim
    /\ LET docs == Documents(dbs[1], NoTrim)
       IN  /\ Len(docs) = 2
           /\ docs[1][2] = <<1, NL>>
           /\ docs[2][2] = <<1, NL, 2>>
    /\ out[1] = <<1, NL, 1, NL, 2, NL>>

-----------------------------------------------------------------------------
(* The mapping specification: the three commands over a few inputs, with   *)
(* and without --mmap.                                                     *)

\* Most records of an input of the mapping specification.
MaxMapRecs == 2

\* Inputs: one-byte records under two names, the empty database among
\* them, and an index file with a line of two fields.
MapInputs ==
    {InputOf(l) : l \in RecLists(DbNames, {<<0>>}, MaxMapRecs)}
        \cup {[ffdata |-> <<0>>, ffindex |-> <<97, TAB, 48, NL>>]}

InitMap ==
    /\ ffindex = EmptyIndex
    /\ ffindex0 = EmptyIndex
    /\ NoDbs
    /\ infiles \in MapInputs
    /\ mm = [opened |-> 0, closed |-> 0]
    /\ out = <<>>
    /\ parsed = NotParsed
    /\ call = [op |-> "none", error |-> "none", args |-> <<>>]

SpecMap == InitMap /\ [][NextCmd]_vars

\* C22: in the order, select and split commands, a memory map of the
\* input data file that has been created is closed exactly once before
\* the command returns or propagates an error, on every exit path; a map
\* is created when --mmap is given and the data file is not empty.
C22_MapClosedOnce ==
    call.op \in {"order", "select", "split"} =>
        /\ mm.opened = IF call.args.mmap /\ infiles.ffdata # <<>>
                          /\ call.error # "InvalidOptionError"
                       THEN 1 ELSE 0
        /\ mm.closed = mm.opened

\* C22's case: split with --mmap ended with the order-length error after
\* the map was made.
C22_Witness ==
    /\ call.op = "split"
    /\ call.args.mmap
    /\ call.error = "FFOrderError"
    /\ mm = [opened |-> 1, closed |-> 1]

-----------------------------------------------------------------------------
(* The index specification: an FFIndex constructed from a list of rows in  *)
(* any order, then changed by append, extend and bump_starts.              *)

\* Rows handed to the constructor: any start, overlapping or not, and
\* sizes with the empty range among them.
IdxStarts == {0, 1, 5}
IdxSizes == {0, 2}

IdxRows ==
    {IndexRow(n, s, z) : n \in PlainNames, s \in IdxStarts, z \in IdxSizes}

\* Rows handed to append and extend, whose start is not used.
NewRows == {IndexRow(n, 0, z) : n \in PlainNames, z \in IdxSizes}

\* The shifts handed to bump_starts.
Shifts == {-1, 0, 3}

InitIndex ==
    /\ \E l \in SeqsUpTo(IdxRows, MaxRows) :
            /\ UniqueNames(l)
            /\ ffindex = IndexNew(l).ix
    /\ ffindex0 = EmptyIndex
    /\ NoDbs
    /\ NoFiles
    /\ call = [op |-> "none", raised |-> FALSE]

IndexCalled(op, r) ==
    /\ ncalls < MaxCalls
    /\ ffindex' = r.ix
    /\ call' = [op |-> op, raised |-> r.raised]
    /\ ncalls' = ncalls + 1
    /\ UNCHANGED <<ffindex0, dbs, stored, failed>>
    /\ FilesUnchanged

\* ffindex.append(value)
IndexAppendCall(value) == IndexCalled("append", IndexAppend(ffindex, value))

\* ffindex.extend(values)
IndexExtendCall(values) == IndexCalled("extend", IndexExtend(ffindex, values))

\* ffindex = ffindex.bump_starts(by)
BumpStartsCall(by) ==
    IndexCalled("bump_starts", [raised |-> FALSE, ix |-> BumpStarts(ffindex, by)])

NextIndex ==
    \/ \E value \in NewRows : IndexAppendCall(value)
    \/ \E values \in [1..2 -> NewRows] : IndexExtendCall(values)
    \/ \E by \in Shifts : BumpStartsCall(by)

SpecIndex == InitIndex /\ [][NextIndex]_vars

\* C23: in every reachable state of an FFIndex, constructed from any list
\* of rows and changed by append, extend and bump_starts, the row list is
\* sorted by start ascending, and the last row, which append takes as the
\* tail, is a row with the greatest start.
C23_RowsSortedByStart ==
    /\ \A i \in 2..Len(ffindex.index) :
          ffindex.index[i - 1].start <= ffindex.index[i].start
    /\ \A i \in 1..Len(ffindex.index) :
          ffindex.index[i].start <= ffindex.index[Len(ffindex.index)].start

\* C23's case: an index constructed from rows given out of order was
\* shifted and then appended to.
C23_Witness ==
    /\ call.op = "append"
    /\ ~call.raised
    /\ ncalls = 3
    /\ Len(ffindex.index) = 3
    /\ ffindex.index[1].start = 4
    /\ ffindex.index[2].start = 8
    /\ ffindex.index[3].start = 10

-----------------------------------------------------------------------------
(* The round-robin stride of partition, reached through split.             *)

\* The names of the records in the order partition is to take them: the
\* order file's, or descending size (stable) of the source's rows.
OrderedNames(s) ==
    IF call.args.order.given THEN Listed(call.args.order)
    ELSE NameSeq(SortedBySizeDesc(SortedByStart(s.rows)))

\* The 0-based positions below m that chunk i of nchunks receives.
PositionsOf(i, nchunks, m) == {p \in 0..(m - 1) : p % nchunks = i}

\* C24: in partition(n) with nchunks = ceil(m / n), chunk i (0-based,
\* written to the files numbered i + 1) holds exactly the rows at the
\* positions i, i + nchunks, i + 2 * nchunks, ... of the ordered list, in
\* that order, and so never more than n rows.
C24_RoundRobinStride ==
    (PartitionPath /\ call.error = "none") =>
        LET s == SourceOf(infiles)
            ordered == OrderedNames(s)
            m == Len(s.rows)
            n == call.args.size
            nchunks == CeilDiv(m, n)
        IN  Opened(s) =>
                /\ Len(out) = nchunks
                /\ \A i \in 0..(nchunks - 1) :
                      LET got == NameSeq(SortedByStart(out[i + 1].db.index.index))
                      IN  /\ Len(got) = Cardinality(PositionsOf(i, nchunks, m))
                          /\ \A j \in 1..Len(got) :
                                got[j] = ordered[i + (j - 1) * nchunks + 1]
                          /\ Len(got) <= n

\* C24's case: three records in an explicit order cut two to a chunk; the
\* first chunk takes the first and the third of the order.
C24_Witness ==
    /\ PartitionPath
    /\ call.error = "none"
    /\ call.args.order.given
    /\ call.args.size = 2
    /\ Len(out) = 2
    /\ Len(Listed(call.args.order)) = 3
    /\ NameSeq(SortedByStart(out[1].db.index.index))
          = <<Listed(call.args.order)[1], Listed(call.args.order)[3]>>
    /\ Opened(SourceOf(infiles))

-----------------------------------------------------------------------------
(* Failing calls on a database.                                            *)

\* The index and the content of the data store of database id are the
\* same after the step as before it.
LeftAsBefore(id) ==
    /\ dbs'[id].index = dbs[id].index
    /\ dbs'[id].data.bytes = dbs[id].data.bytes

\* C25: an FFDB.append that fails because the name is already present
\* leaves the database as it was before the call, no byte added to the
\* data store and no row added.
C25_FailedAppendLeavesDb ==
    [][\A self \in DbIds, data \in Payloads, key \in DbNames :
          (DoAppend(self, data, key) /\ call'.raised) => LeftAsBefore(self)]_vars

\* C26: an append_from that fails, because the key is not in the source,
\* the name is already in the destination, or the bytes read for the row
\* do not end in 0x00, leaves the destination's index and data store as
\* they were before the call.
C26_FailedAppendFromLeavesDb ==
    [][\A self \in DbIds, src \in DbIds, key \in Keys :
          (DoAppendFrom(self, src, key) /\ call'.raised)
              => LeftAsBefore(self)]_vars

\* C27: a concat that fails because an input database holds a name
\* already present, in self or in an earlier input, leaves self's index
\* and data store as they were before the call.
C27_FailedConcatLeavesDb ==
    [][\A self \in DbIds, ids \in SeqsUpTo(DbIds, MaxList) \ {<<>>} :
          (DoConcat(self, ids) /\ call'.raised) => LeftAsBefore(self)]_vars

-----------------------------------------------------------------------------
(* The partitioning specification: a tiled database of records of several  *)
(* sizes, cut by partition or by quick_partition.                          *)

\* Most records of the database partitioned.
MaxPartRecs == 4

\* The records: one, two and four bytes, sentinel-terminated.
PartChunks == {<<0>>, <<1, 0>>, <<1, 2, 3, 0>>}

\* The i-th record is named by the i-th letter.
PartName(i) == <<96 + i>>

PartDbs ==
    {TiledDb([i \in 1..Len(l) |-> <<PartName(i), l[i]>>], FALSE) :
        l \in SeqsUpTo(PartChunks, MaxPartRecs)}

InitPart ==
    /\ ffindex = EmptyIndex
    /\ ffindex0 = EmptyIndex
    /\ \E A \in PartDbs : dbs = <<A>>
    /\ stored = <<>>
    /\ failed = FALSE
    /\ ncalls = 0
    /\ NoFiles
    /\ call = [op |-> "none", n |-> 0, ret |-> 0, raised |-> FALSE]

Partitioned(op, n, r) ==
    /\ call' = [op |-> op, n |-> n, ret |-> r.ret, raised |-> r.raised]
    /\ out' = r.files
    /\ dbs' = <<r.self>>
    /\ UNCHANGED <<ffindex, ffindex0, infiles, mm, parsed, stored, failed, ncalls>>

\* dbs[1].partition(name, n=n)
DoPartition(n) ==
    /\ call.op = "none"
    /\ \E r \in {Partition(dbs[1], NoOrder, n)} : Partitioned("partition", n, r)

\* dbs[1].quick_partition(name, n=n)
DoQuickPartition(n) ==
    /\ call.op = "none"
    /\ \E r \in {QuickPartition(dbs[1], n)} : Partitioned("quick_partition", n, r)

NextPart ==
    \/ \E n \in 1..MaxSize : DoPartition(n)
    \/ \E n \in 1..MaxSize : DoQuickPartition(n)

SpecPart == InitPart /\ [][NextPart]_vars

\* The total byte size of the i-th chunk written.
ChunkTotal(i) == Len(out[i].db.data.bytes)

\* The size of the largest record of the database partitioned.
LargestRecord ==
    LET sizes == {dbs[1].index.index[i].size : i \in 1..Len(dbs[1].index.index)}
    IN  IF sizes = {} THEN 0 ELSE CHOOSE z \in sizes : \A y \in sizes : y <= z

\* C28: with the default order, for any database and any n >= 1, the
\* total byte sizes of any two chunks written by partition(n) differ by at
\* most the size of the largest record, and a lower-numbered chunk never
\* has a smaller total than a higher-numbered one.
C28_ChunksBalanced ==
    call.op = "partition" =>
        /\ ~call.raised
        /\ \A i, j \in 1..Len(out) :
              i < j => /\ ChunkTotal(i) >= ChunkTotal(j)
                       /\ ChunkTotal(i) - ChunkTotal(j) <= LargestRecord

\* C28's case: four records of three sizes, the largest not first, cut
\* into two chunks whose totals differ.
C28_Witness ==
    /\ call.op = "partition"
    /\ call.n = 2
    /\ Len(out) = 2
    /\ Len(dbs[1].index.index) = 4
    /\ dbs[1].index.index[1].size = 1
    /\ dbs[1].index.index[3].size = 4
    /\ ChunkTotal(1) = 5
    /\ ChunkTotal(2) = 3

\* C29: for a source database whose rows tile its data store, every
\* partition written by quick_partition is self-consistent: its first row
\* starts at 0, every row lies within the partition's data length, and
\* reading any row from the partition's data returns the bytes the source
\* holds under that name.
C29_QuickPartitionConsistent ==
    call.op = "quick_partition" =>
        \A i \in 1..Len(out) :
            LET part == out[i].db
                rows == part.index.index
            IN  /\ Len(rows) > 0 => rows[1].start = 0
                /\ \A k \in 1..Len(rows) :
                      /\ rows[k].start >= 0
                      /\ rows[k].start + rows[k].size <= Len(part.data.bytes)
                      /\ rows[k].name \in NamesOf(dbs[1])
                      /\ RowBytes(part, rows[k])
                            = RowBytes(dbs[1], dbs[1].index.lookup[rows[k].name])
                /\ IndexFromFile(out[i].ffindex).ix = part.index

\* C29's case: the second partition written holds two records that do
\* not start at 0 in the source.
C29_Witness ==
    /\ call.op = "quick_partition"
    /\ call.n = 2
    /\ Len(out) = 2
    /\ Len(out[2].db.index.index) = 2
    /\ out[2].db.index.index[2].start = 4
    /\ dbs[1].index.lookup[out[2].db.index.index[2].name].start = 6

\* C30: the integer quick_partition returns is the number of partition
\* file pairs it wrote, as partition's return value is, and every
\* partition it writes holds at least one record.
C30_QuickPartitionCount ==
    /\ call.op = "partition" => call.ret = Len(out)
    /\ call.op = "quick_partition" =>
          /\ call.ret = Len(out)
          /\ \A i \in 1..Len(out) : Len(out[i].db.index.index) >= 1

\* partition returns the number of file pairs it wrote.
PartitionCount == call.op = "partition" => call.ret = Len(out)

====
